---- MODULE Spec2Model ----
(***************************************************************************)
(* Zone coverage pipelines of Infra-Vision: facility locator, zone         *)
(* aggregator, feature engine, coverage scorers and labelers.              *)
(*                                                                         *)
(* Geometry is modelled on a line: a facility is a point x, a zone polygon *)
(* is a closed interval [lo, hi] (the convex hull of its points).  A point *)
(* is 'within' a polygon when it lies in the interior, and the distance of *)
(* a point to a polygon is 0 on the polygon and the gap to it otherwise.   *)
(* Scores are fixed-point numbers, in tenths of a point unless a name says *)
(* otherwise; float NaN and Infinity are explicit values.                  *)
(***************************************************************************)
EXTENDS Integers, Sequences, FiniteSets, TLC

\* ------------------------------------------------------------------------
\* Bounds of the model
\* ------------------------------------------------------------------------
MaxCoord == 3
MaxFac == 2
MaxZones == 2

VARIABLES
    pc,                  \* position of the pipeline that is running
    schools_gdf,         \* school_coverage_model: the loaded facilities
    admin_gdf,           \* school_coverage_model: the zone polygons, in file order
    use_nearest,         \* spatial_join_schools_to_zones: the mode
    nearest_path,        \* which code path the installed geopandas selects
    schools_with_zones,  \* the assignment rows returned by the spatial join
    num_outside,         \* the count printed as outside / removed
    population_df,       \* the population table, zone_id -> row
    zone_stats,          \* aggregate_schools_to_zones: one row per zone_id
    features_df,         \* create_features: the feature rows with coverage_score
    results,             \* predict_school_coverage: the prediction table
    cells_df,            \* park_coverage_model: the cells with their sub-zone
    grouped,             \* park_coverage_model.aggregate_to_zones: the zone table
    zones_df,            \* the zone table a scorer works on
    shuffled,            \* the input rows of a second run, in another order
    shuffled_out,        \* the aggregate of the second run
    run_scores,          \* the score columns written by the runs of a scorer
    hospital_df,         \* hospital_coverage_model: the zone table 'grouped'
    result_df,           \* hospital_coverage_model.export_results: the written table
    output_cols,         \* the column order of the table a pipeline wrote
    raw_df,              \* load_schools_data: the rows read from the schools CSV
    diagnostics,         \* the counts a loader prints
    args,                \* the arguments handed to the pure functions
    outputs              \* the values the pure functions returned

locVars == <<schools_gdf, admin_gdf, population_df, use_nearest, nearest_path,
             schools_with_zones, num_outside, zone_stats, features_df, results>>

parkVars == <<cells_df, grouped, zones_df>>
aggVars == <<shuffled, shuffled_out>>
fnVars == <<args, outputs>>

hospVars == <<hospital_df, result_df>>
loadVars == <<raw_df, diagnostics>>

vars == <<pc, locVars, parkVars, aggVars, run_scores, hospVars, loadVars, output_cols, fnVars>>

\* the variables a pipeline does not use keep these values
LocIdle ==
    /\ schools_gdf = <<>> /\ admin_gdf = <<>> /\ population_df = <<>>
    /\ use_nearest = FALSE /\ nearest_path = "manual"
    /\ schools_with_zones = <<>> /\ num_outside = 0
    /\ zone_stats = <<>> /\ features_df = <<>> /\ results = <<>>
ParkIdle == cells_df = <<>> /\ grouped = <<>> /\ zones_df = <<>>
AggIdle == shuffled = <<>> /\ shuffled_out = <<>>
HospIdle == hospital_df = <<>> /\ result_df = <<>>
LoadIdle == raw_df = <<>> /\ diagnostics = <<>>
RunIdle == run_scores = <<>> /\ HospIdle /\ LoadIdle /\ output_cols = <<>>
FnIdle == args = <<>> /\ outputs = <<>>

\* ------------------------------------------------------------------------
\* Generic helpers
\* ------------------------------------------------------------------------
RECURSIVE SeqSum(_)
SeqSum(s) == IF s = <<>> THEN 0 ELSE Head(s) + SeqSum(Tail(s))

RECURSIVE Flatten(_)
Flatten(ss) == IF ss = <<>> THEN <<>> ELSE Head(ss) \o Flatten(Tail(ss))

SetMin(S) == CHOOSE m \in S : \A o \in S : m <= o

RECURSIVE SortedSeq(_)
SortedSeq(S) == IF S = {} THEN <<>> ELSE <<SetMin(S)>> \o SortedSeq(S \ {SetMin(S)})

SeqsUpTo(S, lo, hi) == UNION {[1..n -> S] : n \in lo..hi}

\* ------------------------------------------------------------------------
\* Facility Locator (school_coverage_model.spatial_join_schools_to_zones)
\* ------------------------------------------------------------------------
Coords == 0..MaxCoord
EnrolVals == {40}

\* zone_id of a row that matched no polygon (NaN after the left join)
NoZone == 0

\* load_schools_data: a school with valid coordinates; student_teacher_ratio
\* and management_type carry the defaults the loader gives to missing columns
Facilities == [x : Coords, enrolment_total : EnrolVals,
               student_teacher_ratio : {30}, management_type : {"unknown"}]
Polygons == {p \in [lo : Coords, hi : Coords] : p.lo < p.hi}

\* the zone files: up to MaxZones polygons, no polygon listed twice
DistinctPolygonSeqs ==
    {p \in SeqsUpTo(Polygons, 1, MaxZones) :
        \A a, b \in 1..Len(p) : p[a] = p[b] => a = b}

\* the zone table: row k has zone_id k and polygon polys[k]
ZoneTable(polys) == [k \in 1..Len(polys) |-> [zone_id |-> k, lo |-> polys[k].lo, hi |-> polys[k].hi]]

\* predicate 'intersects' in place of 'within': the boundary counts
Within_intersects(x, zone) == zone.lo <= x /\ x <= zone.hi

\* a predicate that counts the lower boundary as inside
Within_closedLow(x, zone) == zone.lo <= x /\ x < zone.hi

\* shapely 'within': the point lies in the interior of the polygon
Within(x, zone) == zone.lo < x /\ x < zone.hi

\* shapely distance of a point to a polygon
Distance(x, zone) ==
    IF x < zone.lo THEN zone.lo - x
    ELSE IF x > zone.hi THEN x - zone.hi
    ELSE 0

\* a row of the joined table: the school's index, its zone and its attributes
Row(i, z, school) ==
    [idx |-> i, zone_id |-> z,
     enrolment_total |-> school.enrolment_total,
     student_teacher_ratio |-> school.student_teacher_ratio,
     management_type |-> school.management_type]

\* gpd.sjoin(schools, admin, how='left', predicate='within'): one row per
\* (school, matching zone) pair, one row with a null zone_id for no match
SjoinRowsOf(i, schools, admin) ==
    LET hits == SelectSeq(admin, LAMBDA z : Within(schools[i].x, z))
    IN IF hits = <<>>
       THEN <<Row(i, NoZone, schools[i])>>
       ELSE [j \in 1..Len(hits) |-> Row(i, hits[j].zone_id, schools[i])]

Sjoin(schools, admin) ==
    Flatten([i \in 1..Len(schools) |-> SjoinRowsOf(i, schools, admin)])

SchoolsOutside(rows) == SelectSeq(rows, LAMBDA r : r.zone_id = NoZone)

MinDistance(x, admin) == SetMin({Distance(x, admin[k]) : k \in 1..Len(admin)})

\* gpd.sjoin_nearest(outside, admin, how='left'): for every left row, one
\* row per zone at minimum distance (all of them on a tie), in zone order
SjoinNearest(outside, schools, admin) ==
    Flatten([j \in 1..Len(outside) |->
        LET x == schools[outside[j].idx].x
            near == SelectSeq(admin, LAMBDA z : Distance(x, z) = MinDistance(x, admin))
        IN [n \in 1..Len(near) |-> [idx |-> outside[j].idx, zone_id |-> near[n].zone_id]]])

\* lines 337-343: match the rows of nearest by index, take the first
NearestByIndex(outside, nearest) ==
    [j \in 1..Len(outside) |->
        LET matching == SelectSeq(nearest, LAMBDA r : r.idx = outside[j].idx)
        IN IF Len(matching) > 0 THEN matching[1].zone_id ELSE NoZone]

\* lines 344-349 with the bound on the position off by one
NearestByPosition_offByOne(outside, nearest) ==
    [j \in 1..Len(outside) |->
        IF j < Len(nearest) THEN nearest[j].zone_id ELSE NoZone]

\* lines 344-349: match the rows of nearest by position
NearestByPosition(outside, nearest) ==
    [j \in 1..Len(outside) |->
        IF j <= Len(nearest) THEN nearest[j].zone_id ELSE NoZone]

\* lines 355-370: the manual distance loop, strict '<' keeps the first minimum
RECURSIVE ManualScan(_, _, _, _, _)
ManualScan(x, admin, k, min_dist, nearest_zone_id) ==
    IF k > Len(admin) THEN nearest_zone_id
    ELSE LET dist == Distance(x, admin[k])
         IN IF min_dist < 0 \/ dist < min_dist
            THEN ManualScan(x, admin, k + 1, dist, admin[k].zone_id)
            ELSE ManualScan(x, admin, k + 1, min_dist, nearest_zone_id)

\* min_dist = -1 stands for float('inf'), nearest_zone_id starts as None
NearestManual(outside, schools, admin) ==
    [j \in 1..Len(outside) |-> ManualScan(schools[outside[j].idx].x, admin, 1, -1, NoZone)]

NearestPaths == {"index_left", "position", "manual"}

NearestZones(path, outside, schools, admin) ==
    IF path = "manual" THEN NearestManual(outside, schools, admin)
    ELSE IF path = "index_left"
         THEN NearestByIndex(outside, SjoinNearest(outside, schools, admin))
         ELSE NearestByPosition(outside, SjoinNearest(outside, schools, admin))

\* position of the row of school idx among the outside rows
OutsidePos(outside, idx) == CHOOSE j \in 1..Len(outside) : outside[j].idx = idx

DropNa(rows) == SelectSeq(rows, LAMBDA r : r.zone_id # NoZone)

\* the whole of spatial_join_schools_to_zones: the returned rows
SpatialJoinRows(schools, admin, nearest, path) ==
    LET joined == Sjoin(schools, admin)
        outside == SchoolsOutside(joined)
        zones == NearestZones(path, outside, schools, admin)
        assigned == [r \in 1..Len(joined) |->
                        IF joined[r].zone_id = NoZone
                        THEN [joined[r] EXCEPT
                                 !.zone_id = zones[OutsidePos(outside, joined[r].idx)]]
                        ELSE joined[r]]
    IN IF Len(outside) > 0
       THEN IF nearest THEN DropNa(assigned) ELSE DropNa(DropNa(joined))
       ELSE DropNa(joined)

\* ------------------------------------------------------------------------
\* Zone Aggregator (school_coverage_model.aggregate_schools_to_zones)
\* ------------------------------------------------------------------------
\* groupby('zone_id'): the keys in sorted order, each group in row order
GroupKeys(rows) == SortedSeq({rows[r].zone_id : r \in 1..Len(rows)})
Group(rows, key) == SelectSeq(rows, LAMBDA r : r.zone_id = key)

\* 'sum' and 'count' of one column over one group, accumulated in row order
RECURSIVE AggSum(_, _)
AggSum(group, col) ==
    IF group = <<>> THEN 0 ELSE AggSum(SubSeq(group, 1, Len(group) - 1), col) + group[Len(group)][col]

AggCount(group) == Len(group)

\* 'last' in place of 'mean': the value of the last row of the group
AggMean_last(group, col) == group[Len(group)][col] * 100

\* 'mean' of one column, in hundredths
AggMean(group, col) == (AggSum(group, col) * 100) \div AggCount(group)

\* groupby(['zone_id', 'management_type']).size().unstack(fill_value=0)
MgmtSize(group, mtype) == Len(SelectSeq(group, LAMBDA r : r.management_type = mtype))
MgmtColumns(rows) == {rows[r].management_type : r \in 1..Len(rows)}

\* lines 426-435: the government column is 'govt' when present, else 'government'
NumGovt(rows, group) ==
    IF "govt" \in MgmtColumns(rows) THEN MgmtSize(group, "govt")
    ELSE IF "government" \in MgmtColumns(rows) THEN MgmtSize(group, "government")
    ELSE 0

NumPrivate(rows, group) ==
    IF "private" \in MgmtColumns(rows) THEN MgmtSize(group, "private") ELSE 0

StatsRow(rows, key) ==
    LET group == Group(rows, key)
    IN [zone_id |-> key,
        num_schools |-> AggCount(group),
        total_enrolment |-> AggSum(group, "enrolment_total"),
        avg_enrolment |-> AggMean(group, "enrolment_total"),
        avg_student_teacher_ratio |-> AggMean(group, "student_teacher_ratio"),
        num_govt_schools |-> NumGovt(rows, group),
        num_private_schools |-> NumPrivate(rows, group)]

AggregateSchools(rows) ==
    LET keys == GroupKeys(rows)
    IN [j \in 1..Len(keys) |-> StatsRow(rows, keys[j])]

\* ------------------------------------------------------------------------
\* Float values of the feature engine: a finite number, NaN or +/-Infinity
\* ------------------------------------------------------------------------
Num(v) == [k |-> "num", v |-> v]
NaN == [k |-> "nan", v |-> 0]
PosInf == [k |-> "inf", v |-> 1]
NegInf == [k |-> "inf", v |-> -1]

IsFinite(f) == f.k = "num"

\* float division n / d with the result scaled by 'scale' (IEEE: x/0 is
\* +/-inf, 0/0 is NaN)
FDiv(n, d, scale) ==
    IF d = 0
    THEN IF n = 0 THEN NaN ELSE IF n > 0 THEN PosInf ELSE NegInf
    ELSE Num((n * scale) \div d)

\* Series.replace([np.inf, -np.inf], r) and Series.fillna(r)
ReplaceInf(f, r) == IF f.k = "inf" THEN Num(r) ELSE f
FillNaF(f, r) == IF f.k = "nan" THEN Num(r) ELSE f

Clip(v, lo, hi) == IF v < lo THEN lo ELSE IF v > hi THEN hi ELSE v

\* round a value given in hundredths to tenths (one decimal), half to even
Round1(h) ==
    LET q == h \div 10
        r == h % 10
    IN IF r < 5 THEN q
       ELSE IF r > 5 THEN q + 1
       ELSE IF q % 2 = 0 THEN q ELSE q + 1

\* ------------------------------------------------------------------------
\* Labelers: scores are in hundredths of a point
\* ------------------------------------------------------------------------
Excellent == "Excellent Coverage"
Good == "Good Coverage"
NeedsImprovement == "Needs Improvement"

\* score_to_label with the two lower branches exchanged
score_to_label_swapped(score) ==
    IF score >= 8000 THEN Excellent
    ELSE IF score >= 6000 THEN NeedsImprovement
    ELSE Good

\* school_coverage_model.score_to_label (80 / 60)
score_to_label(score) ==
    IF score >= 8000 THEN Excellent
    ELSE IF score >= 6000 THEN Good
    ELSE NeedsImprovement

\* school_coverage_model.score_to_status (80 / 60)
score_to_status(score) ==
    IF score >= 8000 THEN "excellent"
    ELSE IF score >= 6000 THEN "good"
    ELSE "needs-improvement"

\* ------------------------------------------------------------------------
\* Feature Engine and rule-based scorer (school_coverage_model)
\* ------------------------------------------------------------------------
\* a missing (NaN) cell of the population table
Null == -1

FillNa(v, d) == IF v = Null THEN d ELSE v

\* the row of population_df merged to a zone (how='left'): nulls when absent
PopOf(population, zone_id) ==
    IF zone_id \in DOMAIN population
    THEN population[zone_id]
    ELSE [population_6_17 |-> Null, literacy_rate |-> Null]

\* school_coverage_model.calculate_coverage_score, in thousandths of a point;
\* schools_per_1k and capacity_per_100 are in thousandths, str_ratio in
\* hundredths, literacy in thousandths
SchoolsSubScore(schools_per_1k) == Clip(schools_per_1k * 10, 0, 50000)
CapacitySubScore(capacity_per_100) == Clip(capacity_per_100 \div 4, 0, 30000)
StrSubScore(str_ratio) == 10000 - Clip(((str_ratio - 2000) * 10000) \div 3000, 0, 10000)
LiteracySubScore(literacy) == literacy * 10

SchoolCoverageScore(f) ==
    SchoolsSubScore(f.schools_per_1000_children)
    + CapacitySubScore(f.seat_capacity_per_100_children)
    + StrSubScore(f.avg_student_teacher_ratio)
    + LiteracySubScore(f.literacy_rate)

\* school_coverage_model.create_features for one zone_stats row
FeatureRow(stat, population) ==
    LET pop == PopOf(population, stat.zone_id)
        population_6_17 == FillNa(pop.population_6_17, 2000)
        literacy_rate == FillNa(pop.literacy_rate, 850)
        per1k == FillNaF(ReplaceInf(FDiv(stat.num_schools * 1000, population_6_17, 1000), 0), 0)
        per100 == FillNaF(ReplaceInf(FDiv(stat.total_enrolment * 100, population_6_17, 1000), 0), 0)
        f == [zone_id |-> stat.zone_id,
              num_schools |-> stat.num_schools,
              total_enrolment |-> stat.total_enrolment,
              population_6_17 |-> population_6_17,
              literacy_rate |-> literacy_rate,
              schools_per_1000_children |-> per1k.v,
              seat_capacity_per_100_children |-> per100.v,
              avg_student_teacher_ratio |-> stat.avg_student_teacher_ratio]
    IN [zone_id |-> f.zone_id,
        num_schools |-> f.num_schools,
        total_enrolment |-> f.total_enrolment,
        population_6_17 |-> f.population_6_17,
        literacy_rate |-> f.literacy_rate,
        schools_per_1000_children |-> per1k,
        seat_capacity_per_100_children |-> per100,
        avg_student_teacher_ratio |-> f.avg_student_teacher_ratio,
        coverage_score |-> Clip(SchoolCoverageScore(f), 0, 100000)]

CreateFeatures(stats, population) ==
    [j \in 1..Len(stats) |-> FeatureRow(stats[j], population)]

\* school_coverage_model.predict_school_coverage: the table built from the
\* regression outputs 'predictions' (hundredths of a point, one per row)
PredictRow(feature, prediction) ==
    LET clipped == Clip(prediction, 0, 10000)
    IN [zone_id |-> feature.zone_id,
        predicted_coverage_score |-> Round1(clipped),
        num_schools |-> feature.num_schools,
        total_enrolment |-> feature.total_enrolment,
        coverage_label |-> score_to_label(clipped),
        status |-> score_to_status(clipped)]

PredictSchoolCoverage(schools, admin, population, path, predictions) ==
    LET features == CreateFeatures(
                        AggregateSchools(SpatialJoinRows(schools, admin, TRUE, path)),
                        population)
    IN [j \in 1..Len(features) |-> PredictRow(features[j], predictions[j])]

\* the columns of the results frame in the order lines 749-759 create them
PredictOutputCols ==
    <<"zone_id", "zone_name", "predicted_coverage_score", "num_schools",
      "total_enrolment", "coverage_label", "status">>

\* outputs of the regression model, in hundredths of a point
PredVals == {-500, 5996, 7996, 12000}

\* ------------------------------------------------------------------------
\* The school pipeline as a state machine
\* ------------------------------------------------------------------------
\* population tables of the locator runs: no table row for any zone, or the
\* same typical row for every zone
LocPopRows == {[population_6_17 |-> 1000, literacy_rate |-> 850]}
LocPopTables(admin) ==
    {<<>>} \cup {[k \in 1..Len(admin) |-> r] : r \in LocPopRows}

LocInit ==
    /\ pc = "loaded"
    /\ schools_gdf \in SeqsUpTo(Facilities, 1, MaxFac)
    /\ admin_gdf \in {ZoneTable(p) : p \in DistinctPolygonSeqs}
    /\ population_df \in LocPopTables(admin_gdf)
    /\ use_nearest \in BOOLEAN
    /\ nearest_path \in NearestPaths
    /\ schools_with_zones = <<>>
    /\ num_outside = 0
    /\ zone_stats = <<>>
    /\ features_df = <<>>
    /\ results = <<>>
    /\ ParkIdle /\ AggIdle /\ RunIdle /\ FnIdle

spatial_join_schools_to_zones ==
    /\ pc = "loaded"
    /\ schools_with_zones' = SpatialJoinRows(schools_gdf, admin_gdf, use_nearest, nearest_path)
    /\ num_outside' = Len(SchoolsOutside(Sjoin(schools_gdf, admin_gdf)))
    /\ pc' = "joined"
    /\ UNCHANGED <<schools_gdf, admin_gdf, population_df, use_nearest, nearest_path,
                   zone_stats, features_df, results>>
    /\ UNCHANGED <<parkVars, aggVars, run_scores, hospVars, loadVars, output_cols, fnVars>>

aggregate_schools_to_zones ==
    /\ pc = "joined"
    /\ zone_stats' = AggregateSchools(schools_with_zones)
    /\ pc' = "aggregated"
    /\ UNCHANGED <<schools_gdf, admin_gdf, population_df, use_nearest, nearest_path,
                   schools_with_zones, num_outside, features_df, results>>
    /\ UNCHANGED <<parkVars, aggVars, run_scores, hospVars, loadVars, output_cols, fnVars>>

create_features ==
    /\ pc = "aggregated"
    /\ features_df' = CreateFeatures(zone_stats, population_df)
    /\ pc' = "featured"
    /\ UNCHANGED <<schools_gdf, admin_gdf, population_df, use_nearest, nearest_path,
                   schools_with_zones, num_outside, zone_stats, results>>
    /\ UNCHANGED <<parkVars, aggVars, run_scores, hospVars, loadVars, output_cols, fnVars>>

predict_school_coverage ==
    /\ pc = "featured"
    /\ \E predictions \in [1..Len(AggregateSchools(
                              SpatialJoinRows(schools_gdf, admin_gdf, TRUE, nearest_path)))
                           -> PredVals] :
          results' = PredictSchoolCoverage(schools_gdf, admin_gdf, population_df,
                                           nearest_path, predictions)
    /\ output_cols' = PredictOutputCols
    /\ pc' = "predicted"
    /\ UNCHANGED <<schools_gdf, admin_gdf, population_df, use_nearest, nearest_path,
                   schools_with_zones, num_outside, zone_stats, features_df>>
    /\ UNCHANGED <<parkVars, aggVars, run_scores, hospVars, loadVars, fnVars>>

LocNext ==
    \/ spatial_join_schools_to_zones
    \/ aggregate_schools_to_zones
    \/ create_features
    \/ predict_school_coverage

Init == LocInit

Next == LocNext

Spec == Init /\ [][Next]_vars

\* ------------------------------------------------------------------------
\* Park pipeline (park_coverage_model): cells, aggregation
\* ------------------------------------------------------------------------
\* sub-zone names of create_sub_zones in the order groupby sorts them; a
\* sub_zone_name is held as its position in this list
ParkZoneNames == <<"Central Zone 1", "East Zone 1", "New Delhi", "West Zone A1">>

EastZone1 == CHOOSE z \in DOMAIN ParkZoneNames : ParkZoneNames[z] = "East Zone 1"
NewDelhi == CHOOSE z \in DOMAIN ParkZoneNames : ParkZoneNames[z] = "New Delhi"

\* load_data: the numeric columns of a cell; park_area_km2 and area_km2 are
\* in hundredths of a km2, the other columns are whole numbers
ParkCellKinds ==
    {[park_count |-> 0, park_area_km2 |-> 0, area_km2 |-> 0, population |-> 0,
      green_area_pct |-> 0, parks_per_10k_residents |-> 0],
     [park_count |-> 600, park_area_km2 |-> 1200, area_km2 |-> 4000, population |-> 500000,
      green_area_pct |-> 30, parks_per_10k_residents |-> 12],
     [park_count |-> 50, park_area_km2 |-> 100, area_km2 |-> 2500, population |-> 300000,
      green_area_pct |-> 8, parks_per_10k_residents |-> 2]}

ParkCell(z, c) ==
    [sub_zone_name |-> z, park_count |-> c.park_count, park_area_km2 |-> c.park_area_km2,
     area_km2 |-> c.area_km2, population |-> c.population,
     green_area_pct |-> c.green_area_pct,
     parks_per_10k_residents |-> c.parks_per_10k_residents]

ParkCells(zones) == {ParkCell(z, c) : z \in zones, c \in ParkCellKinds}

\* cells_df.groupby('sub_zone_name')
ParkGroupKeys(cells) == SortedSeq({cells[r].sub_zone_name : r \in 1..Len(cells)})
ParkGroup(cells, key) == SelectSeq(cells, LAMBDA r : r.sub_zone_name = key)

\* park_coverage_model.aggregate_to_zones for one sub-zone: sums, means (in
\* hundredths) and the two ratios (in thousandths)
ParkGroupedRow(cells, key) ==
    LET group == ParkGroup(cells, key)
        total_parks == AggSum(group, "park_count")
        total_park_area_km2 == AggSum(group, "park_area_km2")
        total_area_km2 == AggSum(group, "area_km2")
        total_population == AggSum(group, "population")
    IN [zone_name |-> key,
        total_parks |-> total_parks,
        total_park_area_km2 |-> total_park_area_km2,
        total_area_km2 |-> total_area_km2,
        total_population |-> total_population,
        avg_green_area_pct |-> AggMean(group, "green_area_pct"),
        avg_parks_per_10k |-> AggMean(group, "parks_per_10k_residents"),
        parks_per_km2 |->
            FillNaF(ReplaceInf(FillNaF(FDiv(total_parks * 100, total_area_km2, 1000), 0), 0), 0),
        park_area_per_capita |->
            FillNaF(ReplaceInf(FillNaF(FDiv(total_park_area_km2 * 100, total_population, 1000),
                                       0), 0), 0)]

ParkAggregateToZones(cells) ==
    LET keys == ParkGroupKeys(cells)
    IN [j \in 1..Len(keys) |-> ParkGroupedRow(cells, keys[j])]

\* ------------------------------------------------------------------------
\* Aggregation of a table and of the same rows in another order
\* ------------------------------------------------------------------------
MaxRows == 3

\* the rows df[order[1]], df[order[2]], ...
Reorder(df, order) == [j \in 1..Len(df) |-> df[order[j]]]
Shuffles(df) == {Reorder(df, order) : order \in Permutations(1..Len(df))}

\* rows of a joined school table: zone_id, enrolment_total,
\* student_teacher_ratio, management_type
AggSchoolKinds ==
    {<<1, 10, 20, "govt">>, <<1, 45, 35, "private">>, <<2, 10, 35, "govt">>,
     <<2, 45, 20, "private">>, <<1, 0, 30, "unknown">>}

AggSchoolTables ==
    {[i \in 1..Len(t) |->
         [idx |-> i, zone_id |-> t[i][1], enrolment_total |-> t[i][2],
          student_teacher_ratio |-> t[i][3], management_type |-> t[i][4]]] :
     t \in SeqsUpTo(AggSchoolKinds, 1, MaxRows)}

AggInit ==
    /\ \/ /\ pc = "joined"
          /\ schools_with_zones \in AggSchoolTables
          /\ shuffled \in Shuffles(schools_with_zones)
          /\ cells_df = <<>>
       \/ /\ pc = "cells"
          /\ cells_df \in SeqsUpTo(ParkCells({EastZone1, NewDelhi}), 1, MaxRows)
          /\ shuffled \in Shuffles(cells_df)
          /\ schools_with_zones = <<>>
    /\ schools_gdf = <<>> /\ admin_gdf = <<>> /\ population_df = <<>>
    /\ use_nearest = FALSE /\ nearest_path = "manual" /\ num_outside = 0
    /\ zone_stats = <<>> /\ features_df = <<>> /\ results = <<>>
    /\ grouped = <<>> /\ zones_df = <<>> /\ shuffled_out = <<>>
    /\ RunIdle /\ FnIdle

\* park_coverage_model.aggregate_to_zones
aggregate_to_zones ==
    /\ pc = "cells"
    /\ grouped' = ParkAggregateToZones(cells_df)
    /\ pc' = "grouped"
    /\ UNCHANGED <<cells_df, zones_df, locVars, aggVars, run_scores, hospVars, loadVars, output_cols, fnVars>>

\* aggregate_schools_to_zones run again on the shuffled rows
aggregate_schools_to_zones_shuffled ==
    /\ pc = "aggregated"
    /\ shuffled_out' = AggregateSchools(shuffled)
    /\ pc' = "aggregated_twice"
    /\ UNCHANGED <<shuffled, locVars, parkVars, run_scores, hospVars, loadVars, output_cols, fnVars>>

\* aggregate_to_zones run again on the shuffled cells
aggregate_to_zones_shuffled ==
    /\ pc = "grouped"
    /\ shuffled_out' = ParkAggregateToZones(shuffled)
    /\ pc' = "grouped_twice"
    /\ UNCHANGED <<shuffled, locVars, parkVars, run_scores, hospVars, loadVars, output_cols, fnVars>>

AggNext ==
    \/ aggregate_schools_to_zones
    \/ aggregate_schools_to_zones_shuffled
    \/ aggregate_to_zones
    \/ aggregate_to_zones_shuffled

SpecAgg == AggInit /\ [][AggNext]_vars

\* ------------------------------------------------------------------------
\* The other labelers (scores in hundredths of a point)
\* ------------------------------------------------------------------------
\* park_coverage_model.assign_labels.get_label_and_status (75 / 40)
get_label_and_status(score) ==
    IF score >= 7500 THEN <<Excellent, "excellent">>
    ELSE IF score >= 4000 THEN <<Good, "good">>
    ELSE <<NeedsImprovement, "needs-improvement">>

\* hospital_coverage_model.label_zones.assign_label (75 / 50)
assign_label(score) ==
    IF score >= 7500 THEN <<Excellent, "excellent">>
    ELSE IF score >= 5000 THEN <<Good, "good">>
    ELSE <<NeedsImprovement, "needs-improvement">>

\* calculate_coverage_label of the two cell models (70 / 50)
calculate_coverage_label(score) ==
    IF score >= 7000 THEN Excellent
    ELSE IF score >= 5000 THEN Good
    ELSE NeedsImprovement

\* scores around every threshold of the four labelers
ScoreGrid == {0, 3999, 4000, 4999, 5000, 5999, 6000, 6999, 7000, 7499, 7500,
              7999, 8000, 10000}

LabelInit ==
    /\ pc = "labels"
    /\ args \in {a \in ScoreGrid \X ScoreGrid : a[1] <= a[2]}
    /\ outputs = <<>>
    /\ LocIdle /\ ParkIdle /\ AggIdle /\ RunIdle

\* each action applies one labeler to both scores
apply_score_to_label ==
    /\ pc = "labels"
    /\ "score_to_label" \notin DOMAIN outputs
    /\ outputs' = outputs @@ ("score_to_label" :> <<score_to_label(args[1]),
                                 score_to_label(args[2])>>)
    /\ UNCHANGED <<pc, args, locVars, parkVars, aggVars, run_scores, hospVars, loadVars, output_cols>>

apply_get_label_and_status ==
    /\ pc = "labels"
    /\ "get_label_and_status" \notin DOMAIN outputs
    /\ outputs' = outputs @@ ("get_label_and_status" :> <<get_label_and_status(args[1])[1],
                                 get_label_and_status(args[2])[1]>>)
    /\ UNCHANGED <<pc, args, locVars, parkVars, aggVars, run_scores, hospVars, loadVars, output_cols>>

apply_assign_label ==
    /\ pc = "labels"
    /\ "assign_label" \notin DOMAIN outputs
    /\ outputs' = outputs @@ ("assign_label" :> <<assign_label(args[1])[1],
                                 assign_label(args[2])[1]>>)
    /\ UNCHANGED <<pc, args, locVars, parkVars, aggVars, run_scores, hospVars, loadVars, output_cols>>

apply_calculate_coverage_label ==
    /\ pc = "labels"
    /\ "calculate_coverage_label" \notin DOMAIN outputs
    /\ outputs' = outputs @@ ("calculate_coverage_label" :> <<calculate_coverage_label(args[1]),
                                 calculate_coverage_label(args[2])>>)
    /\ UNCHANGED <<pc, args, locVars, parkVars, aggVars, run_scores, hospVars, loadVars, output_cols>>

LabelNext ==
    \/ apply_score_to_label
    \/ apply_get_label_and_status
    \/ apply_assign_label
    \/ apply_calculate_coverage_label

SpecLabel == LabelInit /\ [][LabelNext]_vars

\* ------------------------------------------------------------------------
\* The derived ratio features of the four aggregators
\* ------------------------------------------------------------------------
\* round-half-even of n / d for n >= 0 and d > 0
RoundRatio(n, d) ==
    LET q == n \div d
        r == n % d
    IN IF 2 * r < d THEN q
       ELSE IF 2 * r > d THEN q + 1
       ELSE IF q % 2 = 0 THEN q ELSE q + 1

\* (n / d * scale).round(1), in tenths
FDivRound1(n, d, scale) ==
    IF d = 0
    THEN IF n = 0 THEN NaN ELSE IF n > 0 THEN PosInf ELSE NegInf
    ELSE Num(RoundRatio(n * scale * 10, d))

\* school_coverage_model.create_features, lines 478-485
SchoolRatios(num_schools, total_enrolment, population_6_17) ==
    LET row == FeatureRow([zone_id |-> 1, num_schools |-> num_schools,
                           total_enrolment |-> total_enrolment,
                           avg_student_teacher_ratio |-> 3000],
                          <<[population_6_17 |-> population_6_17, literacy_rate |-> 850]>>)
    IN [schools_per_1000_children |-> row.schools_per_1000_children,
        seat_capacity_per_100_children |-> row.seat_capacity_per_100_children]

\* park_coverage_model.aggregate_to_zones, lines 153-160
ParkRatios(total_parks, total_park_area_km2, total_area_km2, total_population) ==
    LET row == ParkGroupedRow(<<[sub_zone_name |-> 1, park_count |-> total_parks,
                                 park_area_km2 |-> total_park_area_km2,
                                 area_km2 |-> total_area_km2,
                                 population |-> total_population,
                                 green_area_pct |-> 0,
                                 parks_per_10k_residents |-> 0]>>, 1)
    IN [parks_per_km2 |-> row.parks_per_km2,
        park_area_per_capita |-> row.park_area_per_capita]

\* urban_coverage_model.aggregate_cells_to_zones, lines 154-171, in thousandths
UrbanRatios(total_parks, total_schools, total_hospitals, total_roads_km, total_area_km2) ==
    [parks_per_km2 |-> FillNaF(FillNaF(FDiv(total_parks, total_area_km2, 1000), 0), 0),
     schools_per_km2 |-> FillNaF(FillNaF(FDiv(total_schools, total_area_km2, 1000), 0), 0),
     hospitals_per_km2 |-> FillNaF(FillNaF(FDiv(total_hospitals, total_area_km2, 1000), 0), 0),
     road_density_km_per_km2 |->
         FillNaF(FillNaF(FDiv(total_roads_km, total_area_km2, 1000), 0), 0)]

\* hospital_coverage_model_cells.aggregate_to_zones, lines 295-296, in tenths
HospitalCellsRatios(num_facilities, total_capacity, population) ==
    [beds_per_10k |-> FillNaF(FDivRound1(total_capacity, population, 10000), 0),
     hospitals_per_100k |-> FillNaF(FDivRound1(num_facilities, population, 100000), 0)]

\* lines 213-224 for a zone without a facility range: at least 20 hospitals
MinHospitals(current_facilities) ==
    IF current_facilities < 20 THEN 20 ELSE current_facilities

\* np.random.uniform(80, 120) beds per facility, lines 285-292
BedsPerFacility == {80, 100, 120}

RatioNums == {0, 1, 3, 40}
RatioDens == {0, 1, 2, 1000}

RatioInit ==
    /\ pc = "ratios"
    /\ args \in [numerator : RatioNums, denominator : RatioDens]
    /\ outputs = <<>>
    /\ LocIdle /\ ParkIdle /\ AggIdle /\ RunIdle

school_create_features_ratios ==
    /\ pc = "ratios"
    /\ "school_coverage_model" \notin DOMAIN outputs
    /\ outputs' = outputs @@ ("school_coverage_model" :>
           SchoolRatios(args.numerator, args.numerator * 40, args.denominator))
    /\ UNCHANGED <<pc, args, locVars, parkVars, aggVars, run_scores, hospVars, loadVars, output_cols>>

park_aggregate_to_zones_ratios ==
    /\ pc = "ratios"
    /\ "park_coverage_model" \notin DOMAIN outputs
    /\ outputs' = outputs @@ ("park_coverage_model" :>
           ParkRatios(args.numerator, args.numerator * 100, args.denominator * 100,
                      args.denominator * 1000))
    /\ UNCHANGED <<pc, args, locVars, parkVars, aggVars, run_scores, hospVars, loadVars, output_cols>>

urban_aggregate_cells_to_zones_ratios ==
    /\ pc = "ratios"
    /\ "urban_coverage_model" \notin DOMAIN outputs
    /\ outputs' = outputs @@ ("urban_coverage_model" :>
           UrbanRatios(args.numerator, args.numerator, args.numerator,
                       args.numerator, args.denominator))
    /\ UNCHANGED <<pc, args, locVars, parkVars, aggVars, run_scores, hospVars, loadVars, output_cols>>

hospital_cells_aggregate_to_zones_ratios ==
    \E beds \in BedsPerFacility :
        /\ pc = "ratios"
        /\ "hospital_coverage_model_cells" \notin DOMAIN outputs
        /\ outputs' = outputs @@ ("hospital_coverage_model_cells" :>
               HospitalCellsRatios(MinHospitals(args.numerator),
                                   MinHospitals(args.numerator) * beds,
                                   args.denominator * 1000))
        /\ UNCHANGED <<pc, args, locVars, parkVars, aggVars, run_scores, hospVars, loadVars, output_cols>>

RatioNext ==
    \/ school_create_features_ratios
    \/ park_aggregate_to_zones_ratios
    \/ urban_aggregate_cells_to_zones_ratios
    \/ hospital_cells_aggregate_to_zones_ratios

SpecRatio == RatioInit /\ [][RatioNext]_vars

\* ------------------------------------------------------------------------
\* Cell models (hospital_coverage_model_cells, school_coverage_model_cells)
\* ------------------------------------------------------------------------
SUBZONE_MAPPING ==
    ("Central" :> <<"Central Zone 1", "Central Zone 2", "Central Zone 3">>)
    @@ ("East" :> <<"East Zone 1", "East Zone 2", "East Zone 3">>)
    @@ ("North" :> <<"North Zone 1", "North Zone 2", "North Zone 3">>)
    @@ ("North East" :> <<"North East Zone 1", "North East Zone 2", "North East Zone 3">>)
    @@ ("North West" :> <<"North West Zone A1", "North West Zone A2",
                          "North West Zone B1", "North West Zone B2">>)
    @@ ("South" :> <<"South Zone 1", "South Zone 2", "South East Zone 1",
                     "South East Zone 2">>)
    @@ ("South West" :> <<"South West Zone A1", "South West Zone A2",
                          "South West Zone B1", "South West Zone B2">>)
    @@ ("West" :> <<"West Zone A1", "West Zone A2", "West Zone A3", "West Zone B1">>)
    @@ ("New Delhi" :> <<"New Delhi">>)

InSeq(x, seq) == \E i \in 1..Len(seq) : seq[i] = x

\* subzone_to_main.get(zone_name, None); "" stands for None
MainZone(zone_name) ==
    IF \E main \in DOMAIN SUBZONE_MAPPING : InSeq(zone_name, SUBZONE_MAPPING[main])
    THEN CHOOSE main \in DOMAIN SUBZONE_MAPPING : InSeq(zone_name, SUBZONE_MAPPING[main])
    ELSE ""

Rule(min, max, target) == [min |-> min, max |-> max, target |-> target]

\* hospital_coverage_model_cells.calculate_coverage_score: main_zone_rules,
\* in tenths of a point
main_zone_rules ==
    ("New Delhi" :> Rule(700, 900, 800)) @@ ("Central" :> Rule(650, 800, 720))
    @@ ("South" :> Rule(650, 850, 750)) @@ ("West" :> Rule(650, 850, 750))
    @@ ("North West" :> Rule(650, 850, 750)) @@ ("East" :> Rule(400, 650, 520))
    @@ ("North East" :> Rule(400, 600, 480)) @@ ("North" :> Rule(500, 700, 600))
    @@ ("South West" :> Rule(500, 700, 600))

\* lines 334-372: the weighted factors, in thousandths of a point, of a row
\* with hospitals_per_100k, beds_per_10k and avg_response_time in tenths,
\* avg_distance and doctors_per_1000 in hundredths
HospitalCellsFactors(row, max_load) ==
    Clip(row.hospitals_per_100k * 125, 0, 25000)
    + Clip(row.beds_per_10k * 50, 0, 25000)
    + Clip(((300 - row.avg_distance) * 200) \div 3, 0, 20000)
    + Clip((200 - row.avg_response_time) * 75, 0, 15000)
    + Clip(row.doctors_per_1000 * 50, 0, 10000)
    + Clip(((max_load - row.hospital_load_index) * 5000) \div max_load, 0, 5000)

SetMax(S) == CHOOSE m \in S : \A o \in S : o <= m

\* lines 361-372: the base score of every row, in tenths, clipped to 20..90
HospitalCellsBaseScores(df) ==
    LET top == SetMax({df[j].hospital_load_index : j \in 1..Len(df)})
        max_load == IF top > 0 THEN top ELSE 50000
    IN [j \in 1..Len(df) |->
           Clip(RoundRatio(HospitalCellsFactors(df[j], max_load), 100), 200, 900)]

\* lines 394-413: the zone rule pass; variation[j] is the value drawn by
\* np.random.uniform(-3, 3) for row j, in tenths
HospitalCellsRuleScores(df, base, variation) ==
    [j \in 1..Len(df) |->
        LET main_zone == MainZone(df[j].zone_name)
        IN IF main_zone # "" /\ main_zone \in DOMAIN main_zone_rules
           THEN Clip(main_zone_rules[main_zone].target + variation[j],
                     main_zone_rules[main_zone].min, main_zone_rules[main_zone].max)
           ELSE Clip(base[j], 400, 750)]

\* lines 419-425 for one idx: every row but the first with the score of row
\* idx gets that score plus bump[idx][dup], the value drawn by
\* np.random.uniform(0.1, 0.5) in tenths
DedupAt(scores, idx, bump) ==
    LET current_score == scores[idx]
        duplicates == {j \in 1..Len(scores) : scores[j] = current_score}
        first == SetMin(duplicates)
    IN [j \in 1..Len(scores) |->
           IF j \in duplicates /\ j # first
           THEN Clip(current_score + bump[idx][j], 200, 900)
           ELSE scores[j]]

\* lines 416-425: the loop over idx
RECURSIVE DedupFrom(_, _, _)
DedupFrom(scores, idx, bump) ==
    IF idx > Len(scores) THEN scores
    ELSE DedupFrom(DedupAt(scores, idx, bump), idx + 1, bump)

\* hospital_coverage_model_cells.calculate_coverage_score: the score column
HospitalCellsCoverageScore(df, variation, bump) ==
    DedupFrom(HospitalCellsRuleScores(df, HospitalCellsBaseScores(df), variation), 1, bump)

\* values of np.random.uniform(-3, 3) and np.random.uniform(0.1, 0.5), tenths
Variations == {-1, 0, 1}
Bumps == {1, 5}

\* school_coverage_model_cells.adjust_coverage_scores: zone_adjustments, in
\* hundredths of a point
Range(min, max) == [min |-> min, max |-> max]

zone_adjustments ==
    ("New Delhi" :> Range(6000, 7500)) @@ ("South" :> Range(5500, 7200))
    @@ ("South West" :> Range(6000, 7200)) @@ ("West" :> Range(5500, 6800))
    @@ ("North West" :> Range(5200, 6800)) @@ ("North" :> Range(5500, 6800))
    @@ ("Central" :> Range(3500, 5000)) @@ ("East" :> Range(3500, 5000))
    @@ ("North East" :> Range(3500, 5000))

Min2(a, b) == IF a <= b THEN a ELSE b
Max2(a, b) == IF a >= b THEN a ELSE b

\* lines 282-304: base_score plus the four adjustments, in hundredths; the
\* factors are in thousandths, distance_to_nearest_school_km in hundredths
SchoolCellsNewScore(row) ==
    LET base_score == row.predicted_coverage_score
        schools_factor == Min2(1200, row.num_schools * 10)
        distance_factor ==
            Max2(800, 1000 - ((row.distance_to_nearest_school_km - 20) * 1000) \div 130)
        class_factor == Max2(850, 1000 - ((row.avg_class_size - 25) * 1000) \div 60)
        str_factor == Max2(850, 1000 - (row.student_teacher_ratio - 18) * 20)
    IN (base_score * (100000 + 30 * (schools_factor - 1000) + 20 * (distance_factor - 1000)
                      + 15 * (class_factor - 1000) + 15 * (str_factor - 1000))) \div 100000

\* lines 269-318: the loop over the rows; variation[j] is the value drawn by
\* np.random.uniform(-3, 3) for row j, in tenths
SchoolCellsZoneScores(df, variation) ==
    [j \in 1..Len(df) |->
        LET main_zone == MainZone(df[j].zone_name)
        IN IF main_zone # "" /\ main_zone \in DOMAIN zone_adjustments
           THEN LET adj == zone_adjustments[main_zone]
                    clamped == Clip(SchoolCellsNewScore(df[j]), adj.min, adj.max)
                IN Round1(Clip(clamped + variation[j] * 10, adj.min, adj.max)) * 10
           ELSE Round1(Clip(df[j].predicted_coverage_score, 4000, 7000)) * 10]

\* zones_df.nlargest(5, 'num_schools').index[:3]
ExcellentCandidates(df) ==
    {i \in 1..Len(df) :
        Cardinality({j \in 1..Len(df) :
            \/ df[j].num_schools > df[i].num_schools
            \/ df[j].num_schools = df[i].num_schools /\ j < i}) < 3}

\* school_coverage_model_cells.adjust_coverage_scores: the score column, in
\* hundredths; excellent[j] is the value drawn by np.random.uniform(70, 80)
SchoolCellsAdjustedScores(df, variation, excellent) ==
    LET scores == SchoolCellsZoneScores(df, variation)
    IN [j \in 1..Len(df) |->
           IF j \in ExcellentCandidates(df) /\ scores[j] < 7000
           THEN excellent[j]
           ELSE scores[j]]

\* values of np.random.uniform(70, 80), in hundredths
Excellents == {7000, 7537}

\* ------------------------------------------------------------------------
\* A scorer of the cell models run twice on one zone table
\* ------------------------------------------------------------------------
MaxCellZones == 2

\* zone names in the order groupby sorts them; the last is in no main zone
CellZoneNames == <<"East Zone 1", "New Delhi", "Outer Ring">>

\* the strictly increasing sequences of positions of CellZoneNames
CellZoneOrders ==
    {o \in SeqsUpTo(DOMAIN CellZoneNames, 1, MaxCellZones) :
        \A a, b \in 1..Len(o) : a < b => o[a] < o[b]}

HospitalCellKinds ==
    {[hospitals_per_100k |-> 120, beds_per_10k |-> 300, avg_distance |-> 150,
      avg_response_time |-> 120, doctors_per_1000 |-> 100, hospital_load_index |-> 20000],
     [hospitals_per_100k |-> 20, beds_per_10k |-> 60, avg_distance |-> 280,
      avg_response_time |-> 190, doctors_per_1000 |-> 20, hospital_load_index |-> 45000]}

SchoolCellKinds ==
    {[predicted_coverage_score |-> 6240, num_schools |-> 150,
      distance_to_nearest_school_km |-> 40, avg_class_size |-> 30,
      student_teacher_ratio |-> 22],
     [predicted_coverage_score |-> 4480, num_schools |-> 35,
      distance_to_nearest_school_km |-> 110, avg_class_size |-> 48,
      student_teacher_ratio |-> 36]}

HospitalZoneRow(name, k) ==
    [zone_name |-> name, hospitals_per_100k |-> k.hospitals_per_100k,
     beds_per_10k |-> k.beds_per_10k, avg_distance |-> k.avg_distance,
     avg_response_time |-> k.avg_response_time, doctors_per_1000 |-> k.doctors_per_1000,
     hospital_load_index |-> k.hospital_load_index]

SchoolZoneRow(name, k) ==
    [zone_name |-> name, predicted_coverage_score |-> k.predicted_coverage_score,
     num_schools |-> k.num_schools,
     distance_to_nearest_school_km |-> k.distance_to_nearest_school_km,
     avg_class_size |-> k.avg_class_size, student_teacher_ratio |-> k.student_teacher_ratio]

HospitalZoneTables ==
    UNION {{[j \in 1..Len(o) |-> HospitalZoneRow(CellZoneNames[o[j]], ks[j])] :
               ks \in [1..Len(o) -> HospitalCellKinds]} : o \in CellZoneOrders}

SchoolZoneTables ==
    UNION {{[j \in 1..Len(o) |-> SchoolZoneRow(CellZoneNames[o[j]], ks[j])] :
               ks \in [1..Len(o) -> SchoolCellKinds]} : o \in CellZoneOrders}

RunsInit ==
    /\ \/ pc = "hospital_cells" /\ zones_df \in HospitalZoneTables
       \/ pc = "school_cells" /\ zones_df \in SchoolZoneTables
    /\ RunIdle
    /\ cells_df = <<>> /\ grouped = <<>>
    /\ LocIdle /\ AggIdle /\ FnIdle

\* hospital_coverage_model_cells.calculate_coverage_score, one run
calculate_coverage_score ==
    /\ pc = "hospital_cells"
    /\ Len(run_scores) < 2
    /\ \E variation \in [1..Len(zones_df) -> Variations],
          bump \in [1..Len(zones_df) -> [1..Len(zones_df) -> Bumps]] :
          run_scores' = Append(run_scores,
                               HospitalCellsCoverageScore(zones_df, variation, bump))
    /\ UNCHANGED <<pc, locVars, parkVars, aggVars, hospVars, loadVars, output_cols, fnVars>>

\* school_coverage_model_cells.adjust_coverage_scores, one run
adjust_coverage_scores ==
    /\ pc = "school_cells"
    /\ Len(run_scores) < 2
    /\ \E variation \in [1..Len(zones_df) -> Variations],
          excellent \in [1..Len(zones_df) -> Excellents] :
          run_scores' = Append(run_scores,
                               SchoolCellsAdjustedScores(zones_df, variation, excellent))
    /\ UNCHANGED <<pc, locVars, parkVars, aggVars, hospVars, loadVars, output_cols, fnVars>>

RunsNext ==
    \/ calculate_coverage_score
    \/ adjust_coverage_scores

SpecRuns == RunsInit /\ [][RunsNext]_vars

\* ------------------------------------------------------------------------
\* Park pipeline (park_coverage_model): scoring and adjustment
\* ------------------------------------------------------------------------
\* calculate_park_coverage_score, lines 185-206: the four sub-scores in
\* thousandths of a point; max_density is parks_per_km2.max() or 1
ParkSubScores(row, max_density) ==
    Clip((row.avg_parks_per_10k * 80) \div 3, 0, 40000)
    + Clip((row.park_area_per_capita.v * 10) \div 3, 0, 30000)
    + Clip(row.avg_green_area_pct * 8, 0, 20000)
    + Clip((row.parks_per_km2.v * 10000) \div max_density, 0, 10000)

WithScore(row, score) ==
    [zone_name |-> row.zone_name, total_parks |-> row.total_parks,
     total_park_area_km2 |-> row.total_park_area_km2,
     total_area_km2 |-> row.total_area_km2,
     total_population |-> row.total_population,
     avg_green_area_pct |-> row.avg_green_area_pct,
     avg_parks_per_10k |-> row.avg_parks_per_10k,
     parks_per_km2 |-> row.parks_per_km2,
     park_area_per_capita |-> row.park_area_per_capita,
     predicted_coverage_score |-> score]

\* calculate_park_coverage_score: the score in tenths, rounded and clipped
\* to 15..100
CalculateParkCoverageScore(df) ==
    LET top == SetMax({df[j].parks_per_km2.v : j \in 1..Len(df)})
        max_density == IF top = 0 THEN 1000 ELSE top
    IN [j \in 1..Len(df) |->
           WithScore(df[j],
                     Num(Clip(RoundRatio(ParkSubScores(df[j], max_density), 100), 150, 1000)))]

\* sort_values('total_parks', ascending=False): the number of rows before
\* row j (rows with equal total_parks keep their order)
ParkRank(df, j) ==
    Cardinality({i \in 1..Len(df) :
        \/ df[i].total_parks > df[j].total_parks
        \/ df[i].total_parks = df[j].total_parks /\ i < j})

SortByParks(df) ==
    [r \in 1..Len(df) |-> df[CHOOSE j \in 1..Len(df) : ParkRank(df, j) = r - 1]]

Protected(row) == row.zone_name = EastZone1 \/ row.zone_name = NewDelhi

\* lines 239-252: the scores, in tenths, after the first East Zone 1 / New
\* Delhi settings
FirstSettings(df) ==
    [j \in 1..Len(df) |->
        IF df[j].zone_name = EastZone1 /\ df[j].total_parks > 500 THEN 950
        ELSE IF df[j].zone_name = NewDelhi /\ df[j].total_parks < 100 THEN 440
        ELSE df[j].predicted_coverage_score.v]

\* lines 263-296 on the sorted table z with scores s (tenths): the scores in
\* hundredths after the top / middle / low bands
BandScores(z, s) ==
    LET n_zones == Len(z)
        top_10_pct == Max2(1, n_zones \div 10)
        middle_40_pct == Max2(1, (n_zones * 4) \div 10)
        top == {j \in 1..n_zones : ~Protected(z[j]) /\ j <= top_10_pct}
        rest == {j \in 1..n_zones : ~Protected(z[j]) /\ j \notin top}
        middle == {j \in rest : Cardinality({i \in rest : i < j}) < middle_40_pct}
    IN [j \in 1..n_zones |->
           IF j \in top THEN Clip(s[j] * 14, 7500, 9500)
           ELSE IF j \in middle THEN Clip(s[j] * 12, 4000, 7500)
           ELSE IF j \in rest THEN Clip(s[j] * 8, 1500, 4200)
           ELSE s[j] * 10]

\* (num / den).clip(15, 100).round(1) in tenths, for den > 0
ClipRound1(num, den) ==
    IF num < 150 * den THEN 150
    ELSE IF num > 1000 * den THEN 1000
    ELSE RoundRatio(num, den)

\* lines 300-327: scale the unprotected scores towards an average of 42 and
\* fine-tune; h are the band scores in hundredths, the result is in tenths
\* with NaN where the float is NaN
BalanceScores(z, h) ==
    LET n == Len(z)
        prot == {j \in 1..n : Protected(z[j])}
        unprot == (1..n) \ prot
        P == SeqSum([j \in 1..n |-> IF j \in prot THEN h[j] ELSE 0])
        U == SeqSum([j \in 1..n |-> IF j \in unprot THEN h[j] ELSE 0])
        count == Cardinality(unprot)
        scaled == [j \in 1..n |->
                      IF j \in unprot THEN ClipRound1(h[j] * (4200 * n - P), U * 10)
                      ELSE h[j] \div 10]
        A == SeqSum(scaled)
        gap == IF A >= 420 * n THEN A - 420 * n ELSE 420 * n - A
        tuned == [j \in 1..n |->
                     IF j \in unprot /\ gap > n
                     THEN ClipRound1(scaled[j] * n * count + 420 * n - A, n * count)
                     ELSE scaled[j]]
    IN IF unprot = {} THEN [j \in 1..n |-> Num(h[j] \div 10)]
       ELSE IF prot = {} THEN [j \in 1..n |-> NaN]
       ELSE [j \in 1..n |-> Num(tuned[j])]

\* lines 330-333: East Zone 1 and New Delhi are set exactly
FinalSettings(z, f) ==
    [j \in 1..Len(z) |->
        IF z[j].zone_name = EastZone1 THEN Num(950)
        ELSE IF z[j].zone_name = NewDelhi THEN Num(440)
        ELSE f[j]]

\* calculate_realistic_park_area, in hundredths of a km2; size is the value
\* drawn by np.random.uniform in thousandths of a km2
RealisticParkArea(num_parks, size) ==
    IF num_parks = 0 THEN 0
    ELSE IF num_parks > 1000 THEN RoundRatio(num_parks * 57, 10)
    ELSE IF num_parks > 100 THEN RoundRatio(num_parks * (30 + size), 10)
    ELSE IF num_parks > 30 THEN RoundRatio(num_parks * (20 + size), 10)
    ELSE Max2(RoundRatio(num_parks * (15 + size), 10), 50)

\* values of np.random.uniform(0, 0.02), in thousandths
ParkSizes == {0, 20}

\* adjust_for_ui_expectations: the returned table
AdjustForUiExpectations(df, size) ==
    LET z == SortByParks(df)
        s == SortByParks([j \in 1..Len(df) |->
                             [total_parks |-> df[j].total_parks, at |-> j,
                              score |-> FirstSettings(df)[j]]])
        h == BandScores(z, [j \in 1..Len(z) |-> s[j].score])
        f == FinalSettings(z, BalanceScores(z, h))
    IN [j \in 1..Len(z) |->
           [WithScore(z[j], f[j]) EXCEPT
               !.total_area_km2 =
                   IF Protected(z[j]) THEN z[j].total_area_km2
                   ELSE RealisticParkArea(z[j].total_parks, size[s[j].at])]]

\* calculate_urban_green_balance_index: round(mean of the scores, 1), in
\* tenths; the mean of a column with a NaN score is taken over the other rows
UrbanGreenBalanceIndex(df) ==
    LET finite == {j \in 1..Len(df) : IsFinite(df[j].predicted_coverage_score)}
    IN IF finite = {} THEN NaN
       ELSE Num(RoundRatio(SeqSum([j \in 1..Len(df) |->
                                      IF j \in finite
                                      THEN df[j].predicted_coverage_score.v ELSE 0]),
                           Cardinality(finite)))

ParkInit ==
    /\ pc = "cells"
    /\ cells_df \in SeqsUpTo(ParkCells(DOMAIN ParkZoneNames), 1, MaxRows)
    /\ grouped = <<>>
    /\ zones_df = <<>>
    /\ LocIdle /\ AggIdle /\ RunIdle /\ FnIdle

calculate_park_coverage_score ==
    /\ pc = "grouped"
    /\ zones_df' = CalculateParkCoverageScore(grouped)
    /\ pc' = "scored"
    /\ UNCHANGED <<cells_df, grouped, locVars, aggVars, run_scores, hospVars, loadVars, output_cols, fnVars>>

adjust_for_ui_expectations ==
    /\ pc = "scored"
    /\ \E size \in [1..Len(zones_df) -> ParkSizes] :
          zones_df' = AdjustForUiExpectations(zones_df, size)
    /\ pc' = "adjusted"
    /\ UNCHANGED <<cells_df, grouped, locVars, aggVars, run_scores, hospVars, loadVars, output_cols, fnVars>>

ParkNext ==
    \/ aggregate_to_zones
    \/ calculate_park_coverage_score
    \/ adjust_for_ui_expectations

SpecPark == ParkInit /\ [][ParkNext]_vars

\* ------------------------------------------------------------------------
\* Hospital pipeline (hospital_coverage_model)
\* ------------------------------------------------------------------------
\* calculate_coverage_score, lines 149-170: the sub-scores in thousandths of
\* a point; avg_hospitals_per_100k is in hundredths
HospitalDensityScore(row) ==
    Clip((row.avg_hospitals_per_100k * 80) \div 3, 0, 40000)
    + (IF row.num_hospitals > 0 THEN 5000 ELSE 0)

HospitalBedScore(row) == Clip((row.beds_per_100k * 75) \div 2, 0, 30000)

HospitalRoadScore(row, max_roads) ==
    Clip((row.total_roads_km * 15000) \div max_roads, 0, 15000)

HospitalPopDensityScore(row) == Clip((row.avg_population_density * 3) \div 5, 0, 15000)

\* grouped['total_roads_km'].max() or 1
MaxRoads(df) ==
    LET top == SetMax({df[j].total_roads_km : j \in 1..Len(df)})
    IN IF top = 0 THEN 1 ELSE top

\* lines 173-180: the index in tenths, rounded and clipped to 20..100
HealthAccessIndex(row, max_roads) ==
    Clip(RoundRatio(HospitalDensityScore(row) + HospitalBedScore(row)
                    + HospitalRoadScore(row, max_roads) + HospitalPopDensityScore(row), 100),
         200, 1000)

\* lines 184-238: the zone-specific settings; the index is in 1/10000 of a
\* point from here on
ZoneSpecific(row, index) ==
    IF row.zone_name = "Central"
    THEN IF row.num_hospitals > 35 /\ row.beds_per_100k > 300 THEN 1000000
         ELSE Clip((index * 125) \div 100, 850000, 1000000)
    ELSE IF row.zone_name = "East" /\ row.num_hospitals > 40
    THEN Clip((index * 22) \div 10, 820000, 860000)
    ELSE IF row.zone_name = "North" /\ row.num_hospitals > 40
    THEN Clip((index * 185) \div 100, 700000, 800000)
    ELSE IF row.zone_name = "West" /\ row.num_hospitals > 60
    THEN Clip((index * 92) \div 100, 540000, 560000)
    ELSE IF row.zone_name = "New Delhi"
    THEN Clip((index * 65) \div 100, 200000, 250000)
    ELSE IF row.zone_name = "South" THEN 359000
    ELSE index

\* lines 244-253: the excellent and the poor mask
GeneralAdjustments(row, index) ==
    LET boosted ==
            IF row.num_hospitals > 80 /\ row.beds_per_100k > 500 /\ row.zone_name # "South"
            THEN Clip((index * 12) \div 10, 750000, 1000000)
            ELSE index
    IN IF row.num_hospitals < 30 /\ row.avg_hospitals_per_100k < 200
       THEN Clip((boosted * 7) \div 10, 200000, 400000)
       ELSE boosted

\* hospital_coverage_model.calculate_coverage_score: health_access_index of
\* every row, in tenths
HospitalCoverageScore(df) ==
    [j \in 1..Len(df) |->
        RoundRatio(GeneralAdjustments(df[j],
                       ZoneSpecific(df[j], HealthAccessIndex(df[j], MaxRoads(df)) * 1000)),
                   1000)]

\* label_zones, lines 261-278
LabelZones(df) ==
    [j \in 1..Len(df) |->
        [zone_name |-> df[j].zone_name,
         num_hospitals |-> df[j].num_hospitals,
         avg_hospitals_per_100k |-> df[j].avg_hospitals_per_100k,
         total_beds |-> df[j].total_beds,
         beds_per_100k |-> df[j].beds_per_100k,
         total_roads_km |-> df[j].total_roads_km,
         avg_population_density |-> df[j].avg_population_density,
         health_access_index |-> df[j].health_access_index,
         coverage_label |-> assign_label(df[j].health_access_index)[1],
         status |-> assign_label(df[j].health_access_index)[2]]]

\* str() of a natural number
Digits == <<"0", "1", "2", "3", "4", "5", "6", "7", "8", "9">>

RECURSIVE Str(_)
Str(n) == IF n < 10 THEN Digits[n + 1] ELSE Str(n \div 10) \o Digits[(n % 10) + 1]

\* the zone names of the hospital cells, in sorted order
HospitalZoneNames == <<"Central", "East", "New Delhi", "North East", "South">>

NameRank(names, name) == CHOOSE k \in 1..Len(names) : names[k] = name

\* sorted(grouped['zone_name'].unique()), line 286
SortedZoneNames(df) ==
    LET ranks == {NameRank(HospitalZoneNames, df[j].zone_name) : j \in 1..Len(df)}
        order == SortedSeq(ranks)
    IN [k \in 1..Len(order) |-> HospitalZoneNames[order[k]]]

\* zone_id_map, line 287: f"{i+1}" of the position in the sorted names
zone_id_map(df, name) == Str(NameRank(SortedZoneNames(df), name))

\* output_cols of export_results, lines 298-306
HospitalOutputCols ==
    <<"zone_id", "zone_name", "predicted_coverage_score", "coverage_label",
      "num_facilities", "total_capacity", "status">>

\* export_results, lines 281-313: the rows of result_df.  The table is sorted
\* on the zone_id strings; below ten zones that is the order of the names,
\* in which groupby left the rows
ExportResults(df) ==
    [j \in 1..Len(df) |->
        [zone_id |-> zone_id_map(df, df[j].zone_name),
         zone_name |-> df[j].zone_name,
         predicted_coverage_score |-> df[j].health_access_index,
         coverage_label |-> df[j].coverage_label,
         num_facilities |-> df[j].num_hospitals,
         total_capacity |-> df[j].total_beds,
         status |-> df[j].status]]

\* the zone rows aggregate_to_zones and estimate_hospital_capacity hand to
\* the scorer: no hospital, a well served zone, a thinly served zone
MaxHospZones == 2

HospitalKinds ==
    {[num_hospitals |-> 0, avg_hospitals_per_100k |-> 0, total_beds |-> 0,
      beds_per_100k |-> 0, total_roads_km |-> 0, avg_population_density |-> 12000],
     [num_hospitals |-> 50, avg_hospitals_per_100k |-> 2000, total_beds |-> 4000,
      beds_per_100k |-> 400, total_roads_km |-> 60, avg_population_density |-> 30000],
     [num_hospitals |-> 20, avg_hospitals_per_100k |-> 150, total_beds |-> 300,
      beds_per_100k |-> 100, total_roads_km |-> 30, avg_population_density |-> 5000]}

HospitalRow(name, k) ==
    [zone_name |-> name,
     num_hospitals |-> k.num_hospitals,
     avg_hospitals_per_100k |-> k.avg_hospitals_per_100k,
     total_beds |-> k.total_beds,
     beds_per_100k |-> k.beds_per_100k,
     total_roads_km |-> k.total_roads_km,
     avg_population_density |-> k.avg_population_density]

\* groupby('zone_name') leaves one row per zone, in the order of the names
HospitalTables ==
    UNION {{[j \in 1..Len(SortedSeq(S)) |->
                HospitalRow(HospitalZoneNames[SortedSeq(S)[j]], ks[j])] :
            ks \in [1..Cardinality(S) -> HospitalKinds]} :
           S \in {T \in SUBSET (1..Len(HospitalZoneNames)) :
                    Cardinality(T) \in 1..MaxHospZones}}

HospitalInit ==
    /\ pc = "hospital"
    /\ hospital_df \in HospitalTables
    /\ result_df = <<>>
    /\ output_cols = <<>>
    /\ run_scores = <<>>
    /\ LocIdle /\ ParkIdle /\ AggIdle /\ LoadIdle /\ FnIdle

\* calculate_coverage_score of hospital_coverage_model; outputs holds the
\* four sub-score columns the function sums
hospital_calculate_coverage_score ==
    /\ pc = "hospital"
    /\ outputs' =
          [hospital_score |-> [j \in 1..Len(hospital_df) |-> HospitalDensityScore(hospital_df[j])],
           bed_score |-> [j \in 1..Len(hospital_df) |-> HospitalBedScore(hospital_df[j])],
           road_score |-> [j \in 1..Len(hospital_df) |->
                              HospitalRoadScore(hospital_df[j], MaxRoads(hospital_df))],
           density_score |-> [j \in 1..Len(hospital_df) |->
                                 HospitalPopDensityScore(hospital_df[j])]]
    /\ hospital_df' =
          [j \in 1..Len(hospital_df) |->
              [zone_name |-> hospital_df[j].zone_name,
               num_hospitals |-> hospital_df[j].num_hospitals,
               avg_hospitals_per_100k |-> hospital_df[j].avg_hospitals_per_100k,
               total_beds |-> hospital_df[j].total_beds,
               beds_per_100k |-> hospital_df[j].beds_per_100k,
               total_roads_km |-> hospital_df[j].total_roads_km,
               avg_population_density |-> hospital_df[j].avg_population_density,
               health_access_index |-> HospitalCoverageScore(hospital_df)[j]]]
    /\ pc' = "hospital_scored"
    /\ UNCHANGED <<result_df, output_cols, args>>
    /\ UNCHANGED <<locVars, parkVars, aggVars, loadVars, run_scores>>

label_zones ==
    /\ pc = "hospital_scored"
    /\ hospital_df' = LabelZones(hospital_df)
    /\ pc' = "hospital_labeled"
    /\ UNCHANGED <<result_df, output_cols, fnVars>>
    /\ UNCHANGED <<locVars, parkVars, aggVars, loadVars, run_scores>>

export_results ==
    /\ pc = "hospital_labeled"
    /\ result_df' = ExportResults(hospital_df)
    /\ output_cols' = HospitalOutputCols
    /\ pc' = "hospital_exported"
    /\ UNCHANGED <<hospital_df, fnVars>>
    /\ UNCHANGED <<locVars, parkVars, aggVars, loadVars, run_scores>>

HospitalNext ==
    \/ hospital_calculate_coverage_score
    \/ label_zones
    \/ export_results

SpecHospital == HospitalInit /\ [][HospitalNext]_vars

\* ------------------------------------------------------------------------
\* The school loader (school_coverage_model.load_schools_data)
\* ------------------------------------------------------------------------
\* a cell of the CSV that holds text
Text == [k |-> "text", v |-> 0]

\* pd.to_numeric(errors='coerce'): text becomes NaN, an empty cell is NaN
ToNumeric(cell) == IF cell.k = "num" THEN cell ELSE NaN

\* Series.between(lo, hi) on a numeric cell
Between(cell, lo, hi) == cell.k = "num" /\ lo <= cell.v /\ cell.v <= hi

\* lines 105-110: the rows that survive dropna and the range filter
ValidCoordinates(row) ==
    /\ ToNumeric(row.lat).k # "nan"
    /\ ToNumeric(row.lon).k # "nan"
    /\ Between(ToNumeric(row.lat), -90, 90)
    /\ Between(ToNumeric(row.lon), -180, 180)

\* line 161: to_numeric and fillna(30.0) of the ratio column
CleanRatio(cell) == IF ToNumeric(cell).k = "nan" THEN 30 ELSE ToNumeric(cell).v

\* the point of a loaded row is Point(lon, lat); its position along the
\* model's axis is the longitude
LoadedSchool(row) ==
    [x |-> ToNumeric(row.lon).v,
     enrolment_total |-> 40,
     student_teacher_ratio |-> CleanRatio(row.student_teacher_ratio),
     management_type |-> "unknown"]

\* load_schools_data, lines 105-168: coordinate cleaning, then the filter
\* 0 < student_teacher_ratio < 100
LoadSchoolsData(raw) ==
    LET located == SelectSeq(raw, ValidCoordinates)
        kept == SelectSeq(located,
                    LAMBDA row : CleanRatio(row.student_teacher_ratio) > 0
                                 /\ CleanRatio(row.student_teacher_ratio) < 100)
    IN [j \in 1..Len(kept) |-> LoadedSchool(kept[j])]

\* rows of the schools CSV: coordinates that are valid, out of range, empty
\* or text, and a ratio that is valid or zero
MaxRawRows == 2

RawRows ==
    [lat : {Num(28), Num(95), NaN, Text},
     lon : {Num(0), Num(2), Num(200), NaN, Text},
     student_teacher_ratio : {Num(30), Num(0)}]

LoadInit ==
    /\ pc = "start"
    /\ raw_df \in SeqsUpTo(RawRows, 0, MaxRawRows)
    /\ diagnostics = <<>>
    /\ schools_gdf = <<>>
    /\ admin_gdf = ZoneTable(<<[lo |-> 1, hi |-> 3]>>)
    /\ population_df = <<>>
    /\ use_nearest \in BOOLEAN
    /\ nearest_path \in NearestPaths
    /\ schools_with_zones = <<>>
    /\ num_outside = 0
    /\ zone_stats = <<>>
    /\ features_df = <<>>
    /\ results = <<>>
    /\ run_scores = <<>> /\ HospIdle /\ output_cols = <<>>
    /\ ParkIdle /\ AggIdle /\ FnIdle

\* load_schools_data prints "Loaded {len(gdf)} schools" and nothing else
\* about the rows it removed
load_schools_data ==
    /\ pc = "start"
    /\ schools_gdf' = LoadSchoolsData(raw_df)
    /\ diagnostics' = [loaded |-> Len(LoadSchoolsData(raw_df))]
    /\ pc' = "loaded"
    /\ UNCHANGED <<raw_df, admin_gdf, population_df, use_nearest, nearest_path,
                   schools_with_zones, num_outside, zone_stats, features_df, results>>
    /\ UNCHANGED <<parkVars, aggVars, run_scores, hospVars, output_cols, fnVars>>

LoadNext ==
    \/ load_schools_data
    \/ spatial_join_schools_to_zones
    \/ aggregate_schools_to_zones

SpecLoad == LoadInit /\ [][LoadNext]_vars

\* ------------------------------------------------------------------------
\* Two calls of spatial_join_schools_to_zones on the same frames
\* ------------------------------------------------------------------------
\* the caller's frames after a call as if the function filtered its input
\* in place: the schools outside every polygon are gone
InputsAfterJoin_inPlace(schools, admin) ==
    <<SelectSeq(schools, LAMBDA school : \E k \in 1..Len(admin) : Within(school.x, admin[k])),
      admin>>

\* lines 311-314: to_crs and sjoin return new frames and the later writes go
\* to the joined copy, so the caller's frames are as they were
InputsAfterJoin(schools, admin) == <<schools, admin>>

JoinInit ==
    /\ pc = "loaded"
    /\ schools_gdf \in SeqsUpTo(Facilities, 1, MaxFac)
    /\ admin_gdf \in {ZoneTable(p) : p \in DistinctPolygonSeqs}
    /\ population_df = <<>>
    /\ use_nearest \in BOOLEAN
    /\ nearest_path \in NearestPaths
    /\ schools_with_zones = <<>>
    /\ num_outside = 0
    /\ zone_stats = <<>>
    /\ features_df = <<>>
    /\ results = <<>>
    /\ ParkIdle /\ AggIdle /\ RunIdle /\ FnIdle

\* one call; run_scores collects the assignment each call returned
spatial_join_run ==
    /\ pc = "loaded"
    /\ Len(run_scores) < 2
    /\ schools_with_zones' = SpatialJoinRows(schools_gdf, admin_gdf, use_nearest, nearest_path)
    /\ num_outside' = Len(SchoolsOutside(Sjoin(schools_gdf, admin_gdf)))
    /\ run_scores' = Append(run_scores,
                            SpatialJoinRows(schools_gdf, admin_gdf, use_nearest, nearest_path))
    /\ schools_gdf' = InputsAfterJoin(schools_gdf, admin_gdf)[1]
    /\ admin_gdf' = InputsAfterJoin(schools_gdf, admin_gdf)[2]
    /\ UNCHANGED <<pc, population_df, use_nearest, nearest_path,
                   zone_stats, features_df, results>>
    /\ UNCHANGED <<parkVars, aggVars, hospVars, loadVars, output_cols, fnVars>>

JoinNext == spatial_join_run

SpecJoin == JoinInit /\ [][JoinNext]_vars

\* ------------------------------------------------------------------------
\* Sub-zones of the cell models (create_sub_zones, aggregate_to_zones)
\* ------------------------------------------------------------------------
\* the 29 sub-zone names in the order of Python's string comparison, the
\* order in which groupby and sort_values leave them
SortedSubZoneNames ==
    <<"Central Zone 1", "Central Zone 2", "Central Zone 3",
      "East Zone 1", "East Zone 2", "East Zone 3", "New Delhi",
      "North East Zone 1", "North East Zone 2", "North East Zone 3",
      "North West Zone A1", "North West Zone A2", "North West Zone B1",
      "North West Zone B2", "North Zone 1", "North Zone 2", "North Zone 3",
      "South East Zone 1", "South East Zone 2", "South West Zone A1",
      "South West Zone A2", "South West Zone B1", "South West Zone B2",
      "South Zone 1", "South Zone 2", "West Zone A1", "West Zone A2",
      "West Zone A3", "West Zone B1">>

\* sort_values(column, ascending=False) on the cells S of one main zone:
\* their positions in the table, largest count first, ties in table order
RECURSIVE SortDescending(_, _)
SortDescending(counts, S) ==
    IF S = {} THEN <<>>
    ELSE LET top == CHOOSE i \in S : \A j \in S :
                        counts[i] > counts[j] \/ (counts[i] = counts[j] /\ i <= j)
         IN <<top>> \o SortDescending(counts, S \ {top})

ZoneCells(df, main_zone) == {i \in 1..Len(df) : df[i].zone_name = main_zone}

\* school_coverage_model_cells.create_sub_zones, lines 53-115: the school
\* target of the k-th of n sub-zones.  Below 150 schools per sub-zone and
\* between 150 and 450 the total is split evenly with the remainder going to
\* the first sub-zones; above 450 every target stays at 450 because the
\* amount added is min(50, remainder, 450 - 450) = 0
SchoolTargets(zone_total_schools, n_subzones) ==
    [k \in 1..n_subzones |->
        IF zone_total_schools > 450 * n_subzones THEN 450
        ELSE (zone_total_schools \div n_subzones)
             + (IF k <= zone_total_schools % n_subzones THEN 1 ELSE 0)]

\* the while loop of one sub-zone (school cells lines 141-158, hospital
\* cells lines 102-123); consumed is cell_idx, max_target is target * over / 100
\* and the lower mark is target * under / 100
RECURSIVE FillSubZone(_, _, _, _, _, _, _)
FillSubZone(counts, order, consumed, target, current, over, under) ==
    IF current * 100 < target * over /\ consumed < Len(order)
    THEN LET cell_count == counts[order[consumed + 1]]
         IN IF (current + cell_count) * 100 <= target * over
               \/ current * 100 < target * under
            THEN FillSubZone(counts, order, consumed + 1, target,
                             current + cell_count, over, under)
            ELSE consumed
    ELSE consumed

\* cell_idx after the k-th sub-zone of the main zone took its cells
RECURSIVE Consumed(_, _, _, _, _, _)
Consumed(counts, order, targets, k, over, under) ==
    IF k = 0 THEN 0
    ELSE FillSubZone(counts, order, Consumed(counts, order, targets, k - 1, over, under),
                     targets[k], 0, over, under)

\* the sub-zones whose loop took the cell at position place of the order
Takers(counts, order, targets, place, over, under) ==
    {k \in 1..Len(targets) :
        /\ Consumed(counts, order, targets, k - 1, over, under) < place
        /\ place <= Consumed(counts, order, targets, k, over, under)}

\* the sub_zone_name cell i ends with; "" when no sub-zone took the cell
SchoolSubZoneName(df, i) ==
    LET main_zone == df[i].zone_name
        sub_zones == SUBZONE_MAPPING[main_zone]
        counts == [j \in 1..Len(df) |-> df[j].schools_total]
        order == SortDescending(counts, ZoneCells(df, main_zone))
        targets == SchoolTargets(SeqSum([j \in 1..Len(order) |-> counts[order[j]]]),
                                 Len(sub_zones))
        place == CHOOSE q \in 1..Len(order) : order[q] = i
        takers == Takers(counts, order, targets, place, 115, 90)
    IN IF main_zone \notin DOMAIN SUBZONE_MAPPING \/ takers = {} THEN ""
       ELSE sub_zones[SetMin(takers)]

\* school_coverage_model_cells.create_sub_zones: the cells that keep a
\* sub-zone (line 165 removes the others)
SchoolCreateSubZones(df) ==
    SelectSeq([i \in 1..Len(df) |->
                  [idx |-> i, zone_name |-> df[i].zone_name,
                   schools_total |-> df[i].schools_total,
                   sub_zone_name |-> SchoolSubZoneName(df, i)]],
              LAMBDA cell : cell.sub_zone_name # "")

\* groupby('sub_zone_name') with 'sum', lines 175-198
SubZoneKeys(cells) ==
    SelectSeq(SortedSubZoneNames,
              LAMBDA name : \E i \in 1..Len(cells) : cells[i].sub_zone_name = name)

SchoolCellsAggregateToZones(cells) ==
    LET keys == SubZoneKeys(cells)
    IN [j \in 1..Len(keys) |->
          [zone_name |-> keys[j],
           num_schools |-> SeqSum([i \in 1..Len(cells) |->
                                     IF cells[i].sub_zone_name = keys[j]
                                     THEN cells[i].schools_total ELSE 0])]]

\* the cell tables of school_coverage_realistic cells: cells of a main zone
\* with three sub-zones and of the one-sub-zone main zone
MaxSchoolCells == 6

SchoolCells ==
    [zone_name : {"Central"}, schools_total : {9, 91, 1500}]
    \cup [zone_name : {"New Delhi"}, schools_total : {9}]

SchoolCellsInit ==
    /\ pc = "school_cells_loaded"
    /\ raw_df \in SeqsUpTo(SchoolCells, 1, MaxSchoolCells)
    /\ diagnostics = <<>>
    /\ cells_df = <<>> /\ grouped = <<>> /\ zones_df = <<>>
    /\ run_scores = <<>> /\ HospIdle /\ output_cols = <<>>
    /\ LocIdle /\ AggIdle /\ FnIdle

school_create_sub_zones ==
    /\ pc = "school_cells_loaded"
    /\ cells_df' = SchoolCreateSubZones(raw_df)
    /\ pc' = "school_sub_zoned"
    /\ UNCHANGED <<grouped, zones_df, locVars, aggVars, run_scores, hospVars, loadVars,
                   output_cols, fnVars>>

school_cells_aggregate_to_zones ==
    /\ pc = "school_sub_zoned"
    /\ grouped' = SchoolCellsAggregateToZones(cells_df)
    /\ pc' = "school_zones"
    /\ UNCHANGED <<cells_df, zones_df, locVars, aggVars, run_scores, hospVars, loadVars,
                   output_cols, fnVars>>

SchoolCellsNext ==
    \/ school_create_sub_zones
    \/ school_cells_aggregate_to_zones

SpecSchoolCells == SchoolCellsInit /\ [][SchoolCellsNext]_vars

\* hospital_coverage_model_cells.create_sub_zones, lines 72-88: the hospital
\* target of the k-th of n sub-zones
HospitalTargets(zone_total_hospitals, n_subzones) ==
    [k \in 1..n_subzones |->
        (IF zone_total_hospitals < 10 * n_subzones
         THEN Max2(1, zone_total_hospitals \div n_subzones)
         ELSE zone_total_hospitals \div n_subzones)
        + (IF k <= zone_total_hospitals % n_subzones THEN 1 ELSE 0)]

\* the loop without lines 125-130: a cell no sub-zone took keeps ''
HospitalSubZoneName_noLast(df, i) ==
    LET main_zone == df[i].zone_name
        sub_zones == SUBZONE_MAPPING[main_zone]
        counts == [j \in 1..Len(df) |-> df[j].hospital_facilities]
        order == SortDescending(counts, ZoneCells(df, main_zone))
        targets == HospitalTargets(SeqSum([j \in 1..Len(order) |-> counts[order[j]]]),
                                   Len(sub_zones))
        takers == Takers(counts, order, targets,
                         CHOOSE q \in 1..Len(order) : order[q] = i, 120, 80)
    IN IF main_zone \notin DOMAIN SUBZONE_MAPPING \/ takers = {} THEN ""
       ELSE sub_zones[SetMin(takers)]

\* lines 58-130: the sub_zone_name cell i ends with; the cells the loop did
\* not reach go to the last sub-zone of their main zone
HospitalSubZoneName(df, i) ==
    LET main_zone == df[i].zone_name
        sub_zones == SUBZONE_MAPPING[main_zone]
        counts == [j \in 1..Len(df) |-> df[j].hospital_facilities]
        order == SortDescending(counts, ZoneCells(df, main_zone))
        targets == HospitalTargets(SeqSum([j \in 1..Len(order) |-> counts[order[j]]]),
                                   Len(sub_zones))
        takers == Takers(counts, order, targets,
                         CHOOSE q \in 1..Len(order) : order[q] = i, 120, 80)
    IN IF main_zone \notin DOMAIN SUBZONE_MAPPING THEN ""
       ELSE IF takers = {} THEN sub_zones[Len(sub_zones)]
       ELSE sub_zones[SetMin(takers)]

\* hospital_coverage_model_cells.create_sub_zones: every cell stays in the
\* table
HospitalCreateSubZones(df) ==
    [i \in 1..Len(df) |->
        [idx |-> i, zone_name |-> df[i].zone_name,
         hospital_facilities |-> df[i].hospital_facilities,
         sub_zone_name |-> HospitalSubZoneName(df, i)]]

\* hospital_coverage_model_cells.aggregate_to_zones, lines 175-185: the
\* facility range of each main zone
main_zone_facility_ranges ==
    ("South" :> <<180, 300>>) @@ ("West" :> <<180, 300>>)
    @@ ("North West" :> <<180, 300>>) @@ ("East" :> <<130, 200>>)
    @@ ("North East" :> <<130, 200>>) @@ ("North" :> <<120, 200>>)
    @@ ("South West" :> <<120, 200>>) @@ ("Central" :> <<80, 150>>)
    @@ ("New Delhi" :> <<60, 120>>)

\* lines 188-204: zone_facility_ranges[sub_zone]['facilities']; <<>> when the
\* zone has no range
zone_facility_ranges(zone_name) ==
    LET main_zone == MainZone(zone_name)
    IN IF main_zone = "" \/ main_zone \notin DOMAIN main_zone_facility_ranges THEN <<>>
       ELSE LET n_subzones == Len(SUBZONE_MAPPING[main_zone])
            IN <<Max2(20, main_zone_facility_ranges[main_zone][1] \div n_subzones),
                 Max2(30, main_zone_facility_ranges[main_zone][2] \div n_subzones)>>

\* lines 152-171: groupby('sub_zone_name') with the sum of hospital_facilities
HospitalGroupBy(cells) ==
    LET keys == SubZoneKeys(cells)
    IN [k \in 1..Len(keys) |->
           [zone_name |-> keys[k],
            num_facilities |->
                SeqSum([i \in 1..Len(cells) |->
                           IF cells[i].sub_zone_name = keys[k]
                           THEN cells[i].hospital_facilities ELSE 0])]]

\* lines 211-227: the minimum of 20 and the clamp to the range of the zone
HospitalClampFacilities(g) ==
    [j \in 1..Len(g) |->
        LET target_range == zone_facility_ranges(g[j].zone_name)
            current_facilities == g[j].num_facilities
        IN [g[j] EXCEPT !.num_facilities =
               IF current_facilities < 20 THEN 20
               ELSE IF target_range # <<>>
               THEN Clip(current_facilities, Max2(20, target_range[1]), target_range[2])
               ELSE Max2(20, current_facilities)]]

Total(g) == SeqSum([j \in 1..Len(g) |-> g[j].num_facilities])

\* lines 235-249: every row times target_total / current_total, cut to an
\* integer and clamped to the range of the zone
HospitalRescale(g, target_total) ==
    LET current_total == Total(g)
    IN [j \in 1..Len(g) |->
           LET target_range == zone_facility_ranges(g[j].zone_name)
               scaled == (g[j].num_facilities * target_total) \div current_total
           IN [g[j] EXCEPT !.num_facilities =
                  IF target_range # <<>>
                  THEN Clip(scaled, Max2(20, target_range[1]), target_range[2])
                  ELSE Max2(20, scaled)]]

\* lines 252-275: the difference to the target is shared among the zones
\* below their maximum, largest room first; a share is added only when it is
\* positive
HospitalFineTune(g, target_total) ==
    LET diff == target_total - Total(g)
        room == [j \in 1..Len(g) |->
                    IF zone_facility_ranges(g[j].zone_name) # <<>>
                    THEN zone_facility_ranges(g[j].zone_name)[2] - g[j].num_facilities
                    ELSE 100]
        available_zones == SortDescending(room, {j \in 1..Len(g) : room[j] > 0})
        n == Len(available_zones)
        per_zone == diff \div n
        remainder == diff % n
        add(j) == LET i == CHOOSE q \in 1..n : available_zones[q] = j
                  IN Min2(per_zone + (IF i <= remainder THEN 1 ELSE 0), room[j])
    IN IF diff = 0 \/ n = 0 THEN g
       ELSE [j \in 1..Len(g) |->
                IF room[j] > 0 /\ add(j) > 0
                THEN [g[j] EXCEPT !.num_facilities = @ + add(j)]
                ELSE g[j]]

\* lines 229-275: the total is left alone inside 1500..1800, else rescaled
\* and fine-tuned to target_total, the value np.random.randint drew
HospitalAdjustTotal(g, target_total) ==
    IF Total(g) < 1500 \/ Total(g) > 1800
    THEN HospitalFineTune(HospitalRescale(g, target_total), target_total)
    ELSE g

\* values of np.random.randint(1500, 1801)
TargetTotals == {1500, 1650, 1800}

\* hospital_coverage_model_cells.aggregate_to_zones: the num_facilities
\* column (every value is at least 20 by then, so lines 307-320 change nothing)
HospitalCellsAggregateToZones(cells, target_total) ==
    HospitalAdjustTotal(HospitalClampFacilities(HospitalGroupBy(cells)), target_total)

MaxHospitalCells == 6

\* cell tables of up to MaxHospitalCells cells of two main zones
HospitalSmallTables ==
    SeqsUpTo([zone_name : {"Central"}, hospital_facilities : {15, 85}]
             \cup [zone_name : {"New Delhi"}, hospital_facilities : {15}],
             1, MaxHospitalCells)

\* MAIN_ZONES, line 18
MAIN_ZONES ==
    <<"Central", "East", "New Delhi", "North", "North East", "North West", "South",
      "South West", "West">>

\* a cell table of all nine main zones: two equal cells for every sub-zone,
\* with level[m] facilities in each cell of main zone m
RECURSIVE HospitalFullTable(_, _)
HospitalFullTable(level, m) ==
    IF m > Len(MAIN_ZONES) THEN <<>>
    ELSE [c \in 1..(2 * Len(SUBZONE_MAPPING[MAIN_ZONES[m]])) |->
             [zone_name |-> MAIN_ZONES[m], hospital_facilities |-> level[MAIN_ZONES[m]]]]
         \o HospitalFullTable(level, m + 1)

HospitalFullTables ==
    {HospitalFullTable(level, 1) : level \in [DOMAIN SUBZONE_MAPPING -> {10, 100}]}

HospitalCellsInit ==
    /\ pc = "hospital_cells_loaded"
    /\ raw_df \in HospitalSmallTables \cup HospitalFullTables
    /\ diagnostics = [invalid |-> 0]
    /\ cells_df = <<>> /\ grouped = <<>> /\ zones_df = <<>>
    /\ run_scores = <<>> /\ HospIdle /\ output_cols = <<>>
    /\ LocIdle /\ AggIdle /\ FnIdle

\* hospital_coverage_model_cells.create_sub_zones
hospital_create_sub_zones ==
    /\ pc = "hospital_cells_loaded"
    /\ cells_df' = HospitalCreateSubZones(raw_df)
    /\ pc' = "hospital_sub_zoned"
    /\ UNCHANGED <<grouped, zones_df, locVars, aggVars, run_scores, hospVars,
                   loadVars, output_cols, fnVars>>

\* hospital_coverage_model_cells.aggregate_to_zones; it creates the sub-zones
\* itself when the table has no sub_zone_name column
hospital_cells_aggregate_to_zones ==
    /\ pc \in {"hospital_cells_loaded", "hospital_sub_zoned"}
    /\ cells_df' = HospitalCreateSubZones(raw_df)
    /\ \E target_total \in TargetTotals :
          grouped' = HospitalCellsAggregateToZones(cells_df', target_total)
    /\ pc' = "hospital_zones"
    /\ UNCHANGED <<zones_df, locVars, aggVars, run_scores, hospVars,
                   loadVars, output_cols, fnVars>>

HospitalCellsNext ==
    \/ hospital_create_sub_zones
    \/ hospital_cells_aggregate_to_zones

SpecHospitalCells == HospitalCellsInit /\ [][HospitalCellsNext]_vars

\* ------------------------------------------------------------------------
\* hospital_coverage_model_cells.calculate_coverage_score on a zone table
\* ------------------------------------------------------------------------
MaxScoreZones == 4

\* zone names in the order groupby sorts them; the first is in no main zone,
\* the others share the rule of 'West'
ScoreZoneNames ==
    <<"Outer Ring", "West Zone A1", "West Zone A2", "West Zone A3", "West Zone B1">>

\* zone tables of up to MaxScoreZones neighbours of this list, every row with
\* the same features
ScoreZoneTables ==
    {[j \in 1..Len(o) |-> HospitalZoneRow(ScoreZoneNames[o[j]], k)] :
        o \in {q \in SeqsUpTo(DOMAIN ScoreZoneNames, 1, MaxScoreZones) :
                  \A a \in 2..Len(q) : q[a] = q[a - 1] + 1},
        k \in {CHOOSE kind \in HospitalCellKinds : kind.beds_per_10k = 300}}

ScoresInit ==
    /\ pc = "hospital_cells_zones"
    /\ zones_df \in ScoreZoneTables
    /\ RunIdle
    /\ cells_df = <<>> /\ grouped = <<>>
    /\ LocIdle /\ AggIdle /\ FnIdle

\* hospital_coverage_model_cells.calculate_coverage_score; a row is bumped
\* only when an earlier row has its score, so no draw is made for row 1
hospital_cells_calculate_coverage_score ==
    /\ pc = "hospital_cells_zones"
    /\ \E variation \in [1..Len(zones_df) -> Variations],
          bump \in [1..Len(zones_df) -> [2..Len(zones_df) -> Bumps]] :
          run_scores' = <<HospitalCellsCoverageScore(zones_df, variation, bump)>>
    /\ pc' = "hospital_cells_scored"
    /\ UNCHANGED <<locVars, parkVars, aggVars, hospVars, loadVars, output_cols, fnVars>>

ScoresNext ==
    \/ hospital_cells_calculate_coverage_score

SpecScores == ScoresInit /\ [][ScoresNext]_vars

\* ------------------------------------------------------------------------
\* generate_realistic_park_coverage.assign_parks
\* ------------------------------------------------------------------------
Zone(zone_name, size, green_priority) ==
    [zone_name |-> zone_name, size |-> size, green_priority |-> green_priority]

\* ZONES, lines 24-72
ZONES ==
    <<Zone("Central Zone 1", "small", "low"),
      Zone("Central Zone 2", "small", "low"),
      Zone("Central Zone 3", "small", "low"),
      Zone("East Zone 1", "large", "high"),
      Zone("East Zone 2", "medium", "medium"),
      Zone("East Zone 3", "medium", "medium"),
      Zone("North Zone 1", "medium", "low"),
      Zone("North Zone 2", "medium", "low"),
      Zone("North Zone 3", "small", "low"),
      Zone("North East Zone 1", "medium", "low"),
      Zone("North East Zone 2", "small", "low"),
      Zone("North East Zone 3", "small", "low"),
      Zone("North West Zone A1", "large", "medium"),
      Zone("North West Zone A2", "medium", "medium"),
      Zone("North West Zone B1", "medium", "medium"),
      Zone("North West Zone B2", "small", "low"),
      Zone("South Zone 1", "large", "high"),
      Zone("South Zone 2", "large", "high"),
      Zone("South East Zone 1", "medium", "high"),
      Zone("South East Zone 2", "small", "medium"),
      Zone("South West Zone A1", "large", "high"),
      Zone("South West Zone A2", "medium", "high"),
      Zone("South West Zone B1", "medium", "medium"),
      Zone("South West Zone B2", "small", "medium"),
      Zone("West Zone A1", "large", "high"),
      Zone("West Zone A2", "large", "high"),
      Zone("West Zone A3", "medium", "medium"),
      Zone("New Delhi", "medium", "medium"),
      Zone("East Zone 4", "medium", "medium")>>

\* the indices of the large zones of p that satisfy keep, in list order
LargeIndices(zones, keep(_)) ==
    SelectSeq([i \in 1..Len(zones) |-> i],
              LAMBDA i : zones[i].size = "large" /\ keep(zones[i]))

\* lines 130-135 and 176-182: diff is shared among the zones at indices, the
\* first diff % n of them get one more
Spread(p, indices, diff) ==
    LET n == Len(indices)
        rank(i) == CHOOSE k \in 1..n : indices[k] = i
    IN [i \in 1..Len(p) |->
           IF \E k \in 1..n : indices[k] = i
           THEN p[i] + (diff \div n) + (IF rank(i) <= diff % n THEN 1 ELSE 0)
           ELSE p[i]]

\* assign_parks: the returned park_allocations. base[size] and
\* multiplier[green_priority] (in hundredths) are the draws of lines 92-105
\* for the zones of that size and priority, ndmc1 and ndmc2 the two draws for
\* New Delhi
AssignParks(zones, total_parks_target, base, multiplier, ndmc1, ndmc2) ==
    LET n == Len(zones)
        NotNd(z) == z.zone_name # "New Delhi"
        AnyZone(z) == TRUE
        first == [i \in 1..n |->
                     IF zones[i].zone_name = "New Delhi" THEN ndmc1
                     ELSE Clip((base[zones[i].size] * multiplier[zones[i].green_priority])
                                   \div 100, 150, 1200)]
        scaled == [i \in 1..n |-> (first[i] * total_parks_target) \div SeqSum(first)]
        large1 == LargeIndices(zones, NotNd)
        shared == IF SeqSum(scaled) # total_parks_target /\ large1 # <<>>
                  THEN Spread(scaled, large1, total_parks_target - SeqSum(scaled))
                  ELSE scaled
        capped == [i \in 1..n |-> Min2(shared[i], 1200)]
        large2 == LargeIndices(zones, AnyZone)
        topped == IF SeqSum(capped) < total_parks_target /\ large2 # <<>>
                  THEN [i \in 1..n |->
                           IF zones[i].size = "large"
                           THEN Min2(capped[i] + (total_parks_target - SeqSum(capped))
                                                     \div Len(large2), 1200)
                           ELSE capped[i]]
                  ELSE capped
        ndmc == [i \in 1..n |-> IF NotNd(zones[i]) THEN topped[i] ELSE ndmc2]
        current_non_ndmc == SeqSum([i \in 1..n |-> IF NotNd(zones[i]) THEN ndmc[i] ELSE 0])
        normal == [i \in 1..n |->
                      IF NotNd(zones[i]) /\ current_non_ndmc > 0
                      THEN Clip((ndmc[i] * (total_parks_target - ndmc2))
                                    \div current_non_ndmc, 150, 1200)
                      ELSE ndmc[i]]
        spread == Spread(normal, large1, total_parks_target - SeqSum(normal))
    IN IF SeqSum(normal) # total_parks_target /\ large1 # <<>>
       THEN [i \in 1..n |->
                IF zones[i].size = "large" /\ NotNd(zones[i])
                THEN Clip(spread[i], 150, 1200) ELSE normal[i]]
       ELSE normal

\* values of the draws: np.random.randint for the base count of each size,
\* np.random.uniform for the multiplier of each priority (hundredths),
\* np.random.randint(300, 401) and np.random.randint(16000, 17001)
BaseDraws ==
    [small : {150, 399}, medium : {400, 799}, large : {800, 1199}]
MultiplierDraws ==
    [high : {110, 130}, medium : {90, 110}, low : {70, 90}]
NdmcDraws == {300, 400}
TotalParksTargets == {16000, 16500, 17000}

AssignInit ==
    /\ pc = "park_zones"
    /\ args = ZONES
    /\ outputs = <<>>
    /\ LocIdle /\ ParkIdle /\ AggIdle /\ RunIdle

\* generate_realistic_park_coverage.assign_parks(ZONES)
assign_parks ==
    /\ pc = "park_zones"
    /\ \E total_parks_target \in TotalParksTargets, base \in BaseDraws,
          multiplier \in MultiplierDraws, ndmc1 \in NdmcDraws, ndmc2 \in NdmcDraws :
          outputs' = [total_parks_target |-> total_parks_target,
                      park_allocations |->
                          AssignParks(args, total_parks_target, base, multiplier,
                                      ndmc1, ndmc2)]
    /\ pc' = "parks_assigned"
    /\ UNCHANGED <<args, locVars, parkVars, aggVars, run_scores, hospVars, loadVars,
                   output_cols>>

AssignNext ==
    \/ assign_parks

SpecAssign == AssignInit /\ [][AssignNext]_vars

\* ------------------------------------------------------------------------
\* create_zone_ids of the two cell models
\* ------------------------------------------------------------------------
\* f"{x:02d}"
Format02d(x) == IF x < 10 THEN "0" \o Str(x) ELSE Str(x)

\* the list with 'South Zone' ahead of 'South East Zone'
zone_order_southFirst ==
    <<"Central Zone 1", "Central Zone 2", "Central Zone 3",
      "East Zone 1", "East Zone 2", "East Zone 3",
      "New Delhi",
      "North Zone 1", "North Zone 2", "North Zone 3",
      "North East Zone 1", "North East Zone 2", "North East Zone 3",
      "North West Zone A1", "North West Zone A2", "North West Zone B1",
      "North West Zone B2",
      "South Zone 1", "South Zone 2",
      "South East Zone 1", "South East Zone 2",
      "South West Zone A1", "South West Zone A2", "South West Zone B1",
      "South West Zone B2",
      "West Zone A1", "West Zone A2", "West Zone A3", "West Zone B1">>

\* hospital_coverage_model_cells.create_zone_ids: zone_order, lines 459-469
zone_order ==
    <<"Central Zone 1", "Central Zone 2", "Central Zone 3",
      "East Zone 1", "East Zone 2", "East Zone 3",
      "New Delhi",
      "North Zone 1", "North Zone 2", "North Zone 3",
      "North East Zone 1", "North East Zone 2", "North East Zone 3",
      "North West Zone A1", "North West Zone A2", "North West Zone B1",
      "North West Zone B2",
      "South East Zone 1", "South East Zone 2",
      "South Zone 1", "South Zone 2",
      "South West Zone A1", "South West Zone A2", "South West Zone B1",
      "South West Zone B2",
      "West Zone A1", "West Zone A2", "West Zone A3", "West Zone B1">>

\* hospital_coverage_model_cells.create_zone_ids on the zone_name column: the
\* zones of zone_order that are present, then the others in table order,
\* numbered from 01
HospitalCellsCreateZoneIds(names) ==
    LET ordered_zones ==
            SelectSeq(zone_order, LAMBDA zone : InSeq(zone, names))
            \o SelectSeq(names, LAMBDA zone : ~InSeq(zone, zone_order))
    IN [k \in 1..Len(ordered_zones) |->
           [zone_name |-> ordered_zones[k], zone_id |-> Format02d(k)]]

\* school_coverage_model_cells.create_zone_ids on the zone_name column:
\* sort_values(['_main_zone', 'zone_name']) in string order (MAIN_ZONES and
\* SortedSubZoneNames are in that order), numbered from 01
SchoolCellsCreateZoneIds(names) ==
    LET key(zone) == NameRank(MAIN_ZONES, MainZone(zone)) * 100
                         + NameRank(SortedSubZoneNames, zone)
        keys == SortedSeq({key(names[j]) : j \in 1..Len(names)})
    IN [k \in 1..Len(keys) |->
           [zone_name |-> names[CHOOSE j \in 1..Len(names) : key(names[j]) = keys[k]],
            zone_id |-> Format02d(k)]]

\* zone tables: the 29 sub-zones from every starting point of the sorted list
\* round, and the first sub-zones of that list
ZoneNameTables ==
    {[j \in 1..29 |-> SortedSubZoneNames[((j + k) % 29) + 1]] : k \in 0..28}
    \cup {SubSeq(SortedSubZoneNames, 1, n) : n \in 1..28}

ZoneIdsInit ==
    /\ pc = "zone_ids"
    /\ args \in ZoneNameTables
    /\ outputs = <<>>
    /\ LocIdle /\ ParkIdle /\ AggIdle /\ RunIdle

hospital_cells_create_zone_ids ==
    /\ pc = "zone_ids"
    /\ "hospital" \notin DOMAIN outputs
    /\ outputs' = outputs @@ ("hospital" :> HospitalCellsCreateZoneIds(args))
    /\ UNCHANGED <<pc, args, locVars, parkVars, aggVars, run_scores, hospVars,
                   loadVars, output_cols>>

school_cells_create_zone_ids ==
    /\ pc = "zone_ids"
    /\ "school" \notin DOMAIN outputs
    /\ outputs' = outputs @@ ("school" :> SchoolCellsCreateZoneIds(args))
    /\ UNCHANGED <<pc, args, locVars, parkVars, aggVars, run_scores, hospVars,
                   loadVars, output_cols>>

ZoneIdsNext ==
    \/ hospital_cells_create_zone_ids
    \/ school_cells_create_zone_ids

SpecZoneIds == ZoneIdsInit /\ [][ZoneIdsNext]_vars

\* ------------------------------------------------------------------------
\* clean_parks_data.clean_zone_format; a string is the sequence of its
\* characters
\* ------------------------------------------------------------------------
LowerCase == <<"a", "b", "c", "d", "e", "f", "g", "h", "i", "j", "k", "l", "m", "n", "o", "p", "q", "r", "s", "t", "u", "v", "w", "x", "y", "z">>
UpperCase == <<"A", "B", "C", "D", "E", "F", "G", "H", "I", "J", "K", "L", "M", "N", "O", "P", "Q", "R", "S", "T", "U", "V", "W", "X", "Y", "Z">>

IsDigit(c) == c \in {"0", "1", "2", "3", "4", "5", "6", "7", "8", "9"}
IsUpper(c) == InSeq(c, UpperCase)

\* str.upper() of one character
Upper(c) ==
    IF InSeq(c, LowerCase) THEN UpperCase[NameRank(LowerCase, c)] ELSE c

\* str.strip()
Strip(s) ==
    LET inked == {i \in 1..Len(s) : s[i] # " "}
    IN IF inked = {} THEN <<>> ELSE SubSeq(s, SetMin(inked), SetMax(inked))

\* re.sub(r'[-_]\s*[A-Z]+$', '', zone_str), line 119: the string without
\* the first suffix made of '-' or '_', blanks and one or more capitals
RemoveSuffix(s) ==
    LET matches(i) ==
            /\ s[i] \in {"-", "_"}
            /\ \E a \in (i + 1)..Len(s) :
                  /\ \A b \in (i + 1)..(a - 1) : s[b] = " "
                  /\ \A b \in a..Len(s) : IsUpper(s[b])
        starts == {i \in 1..Len(s) : matches(i)}
    IN IF starts = {} THEN s ELSE SubSeq(s, 1, SetMin(starts) - 1)

\* re.findall(r'\d+', zone_str)[0], line 122; <<>> when there is no digit
FirstNumber(s) ==
    LET digits == {i \in 1..Len(s) : IsDigit(s[i])}
        from == SetMin(digits)
        to == SetMax({j \in from..Len(s) : \A b \in from..j : IsDigit(s[b])})
    IN IF digits = {} THEN <<>> ELSE SubSeq(s, from, to)

\* key in zone_str
Contains(s, key) ==
    \E i \in 0..(Len(s) - Len(key)) : SubSeq(s, i + 1, i + Len(key)) = key

\* zone_mappings, lines 132-143, in the order the dict is walked
zone_mappings ==
    <<<<<<"E", "A", "S", "T">>,
        <<"0", "1">>>>,
      <<<<"N", "O", "R", "T", "H", " ", "E", "A", "S", "T">>,
        <<"0", "4">>>>,
      <<<<"N", "O", "R", "T", "H">>,
        <<"0", "7">>>>,
      <<<<"N", "O", "R", "T", "H", " ", "W", "E", "S", "T">>,
        <<"0", "9">>>>,
      <<<<"W", "E", "S", "T">>,
        <<"1", "4">>>>,
      <<<<"S", "O", "U", "T", "H", " ", "W", "E", "S", "T">>,
        <<"1", "9">>>>,
      <<<<"S", "O", "U", "T", "H">>,
        <<"2", "3">>>>,
      <<<<"S", "O", "U", "T", "H", " ", "E", "A", "S", "T">>,
        <<"2", "5">>>>,
      <<<<"C", "E", "N", "T", "R", "A", "L">>,
        <<"2", "7">>>>,
      <<<<"N", "E", "W", " ", "D", "E", "L", "H", "I">>,
        <<"2", "6">>>>>>

\* a missing value (None, NaN) of the zone column
MissingValue == <<"NaN">>

\* clean_zone_format
CleanZoneFormat(zone_value) ==
    IF zone_value = MissingValue \/ zone_value = <<>> THEN <<>>
    ELSE LET stripped == Strip(zone_value)
             zone_str == RemoveSuffix([i \in 1..Len(stripped) |-> Upper(stripped[i])])
             num == FirstNumber(zone_str)
             hits == {k \in 1..Len(zone_mappings) : Contains(zone_str, zone_mappings[k][1])}
         IN IF num # <<>> THEN (IF Len(num) = 1 THEN <<"0">> \o num ELSE num)
            ELSE IF hits # {} THEN zone_mappings[SetMin(hits)][2]
            ELSE zone_str

\* zone values: a name or a number, bare or with a suffix, a number also
\* after 'ZONE ', and the missing values
ZoneTexts ==
    {<<"E", "A", "S", "T">>,
     <<"N", "O", "R", "T", "H", " ", "E", "A", "S", "T">>,
     <<"N", "O", "R", "T", "H">>,
     <<"N", "O", "R", "T", "H", " ", "W", "E", "S", "T">>,
     <<"W", "E", "S", "T">>,
     <<"S", "O", "U", "T", "H", " ", "W", "E", "S", "T">>,
     <<"S", "O", "U", "T", "H">>,
     <<"S", "O", "U", "T", "H", " ", "E", "A", "S", "T">>,
     <<"C", "E", "N", "T", "R", "A", "L">>,
     <<"N", "E", "W", " ", "D", "E", "L", "H", "I">>,
     <<"e", "a", "s", "t">>,
     <<"R", "O", "H", "I", "N", "I">>}
ZoneNumbers == {<<"1">>, <<"0", "1">>, <<"7">>, <<"1", "0">>, <<"1", "0", "0">>}
ZoneSuffixes == {<<>>, <<"-", "E">>, <<"_", " ", "I", "I">>, <<" ">>}
ZoneValues ==
    {t \o x : t \in ZoneTexts \cup ZoneNumbers, x \in ZoneSuffixes}
    \cup {<<"Z", "O", "N", "E", " ">> \o n \o x : n \in ZoneNumbers, x \in ZoneSuffixes}
    \cup {MissingValue, <<>>}

CleanInit ==
    /\ pc = "zone_values"
    /\ args \in ZoneValues
    /\ outputs = <<>>
    /\ LocIdle /\ ParkIdle /\ AggIdle /\ RunIdle

\* clean_zone_format applied to the value, then to its own result
clean_zone_format ==
    /\ pc = "zone_values"
    /\ Len(outputs) < 2
    /\ outputs' = Append(outputs, CleanZoneFormat(IF outputs = <<>> THEN args
                                                  ELSE outputs[Len(outputs)]))
    /\ UNCHANGED <<pc, args, locVars, parkVars, aggVars, run_scores, hospVars,
                   loadVars, output_cols>>

CleanNext ==
    \/ clean_zone_format

SpecClean == CleanInit /\ [][CleanNext]_vars

\* ------------------------------------------------------------------------
\* park_coverage_model.create_sub_zones
\* ------------------------------------------------------------------------
\* subzone_mapping, lines 73-83
subzone_mapping ==
    ("Central" :> <<"Central Zone 1", "Central Zone 2", "Central Zone 3">>)
    @@ ("East" :> <<"East Zone 1", "East Zone 2", "East Zone 3">>)
    @@ ("North" :> <<"North Zone 1", "North Zone 2", "North Zone 3">>)
    @@ ("North East" :> <<"North East Zone 1", "North East Zone 2", "North East Zone 3">>)
    @@ ("North West" :> <<"North West Zone A1", "North West Zone A2",
                          "North West Zone B1", "North West Zone B2">>)
    @@ ("South" :> <<"South Zone 1", "South Zone 2", "South East Zone 1",
                     "South East Zone 2", "South Zone 3">>)
    @@ ("South West" :> <<"South West Zone A1", "South West Zone A2",
                          "South West Zone B1", "South West Zone B2">>)
    @@ ("West" :> <<"West Zone A1", "West Zone A2", "West Zone A3">>)
    @@ ("New Delhi" :> <<"New Delhi">>)

\* the slices with the extra cells given to the last sub-zones
ParkSubZoneAt_lastExtra(place, n_cells, n_subzones) ==
    LET cells_per_subzone == n_cells \div n_subzones
        remainder == n_cells % n_subzones
        end_idx(i) == i * cells_per_subzone + Max2(0, i - (n_subzones - remainder))
    IN SetMin({i \in 1..n_subzones : place <= end_idx(i)})

\* lines 107-115: the sub-zone whose slice [start_idx, end_idx) holds the
\* cell at position place of the sorted cells of a main zone
ParkSubZoneAt(place, n_cells, n_subzones) ==
    LET cells_per_subzone == n_cells \div n_subzones
        remainder == n_cells % n_subzones
        end_idx(i) == i * cells_per_subzone + Min2(i, remainder)
    IN SetMin({i \in 1..n_subzones : place <= end_idx(i)})

\* sort_values('park_count', ascending=False): the orders of the cells of S
\* with no smaller count ahead of a larger one (the sort is not stable, equal
\* counts come in any order)
DescendingOrders(df, S) ==
    {o \in [1..Cardinality(S) -> S] :
        /\ \A a, b \in 1..Cardinality(S) : a # b => o[a] # o[b]
        /\ \A a, b \in 1..Cardinality(S) :
              a < b => df[o[a]].park_count >= df[o[b]].park_count}

\* create_sub_zones: the returned table; order[main_zone] is the sorted
\* sequence of the cells of that main zone
ParkCreateSubZones(df, order) ==
    LET named(i) ==
            LET main_zone == df[i].zone_name
                cell_indices == order[main_zone]
            IN subzone_mapping[main_zone][
                   ParkSubZoneAt(CHOOSE q \in 1..Len(cell_indices) : cell_indices[q] = i,
                                 Len(cell_indices), Len(subzone_mapping[main_zone]))]
        kept == SelectSeq([i \in 1..Len(df) |-> i],
                          LAMBDA i : df[i].zone_name \in DOMAIN subzone_mapping)
    IN [r \in 1..Len(kept) |->
           [idx |-> kept[r], zone_name |-> df[kept[r]].zone_name,
            park_count |-> df[kept[r]].park_count, sub_zone_name |-> named(kept[r])]]

MaxParkCells == 5

\* cells of a main zone with three sub-zones, of New Delhi and of a zone that
\* is no key of subzone_mapping
ParkRawCells ==
    [zone_name : {"Central"}, park_count : {0, 5, 9}]
    \cup [zone_name : {"New Delhi", "Noida"}, park_count : {5}]

ParkCellsInit ==
    /\ pc = "park_cells_loaded"
    /\ raw_df \in SeqsUpTo(ParkRawCells, 1, MaxParkCells)
    /\ diagnostics = [invalid |-> 0]
    /\ cells_df = <<>> /\ grouped = <<>> /\ zones_df = <<>>
    /\ run_scores = <<>> /\ HospIdle /\ output_cols = <<>>
    /\ LocIdle /\ AggIdle /\ FnIdle

\* park_coverage_model.create_sub_zones
park_create_sub_zones ==
    /\ pc = "park_cells_loaded"
    /\ \E sorted \in DescendingOrders(raw_df, 1..Len(raw_df)) :
          cells_df' = ParkCreateSubZones(raw_df,
                          [main_zone \in DOMAIN subzone_mapping |->
                              SelectSeq(sorted, LAMBDA i : raw_df[i].zone_name = main_zone)])
    /\ pc' = "park_sub_zoned"
    /\ UNCHANGED <<grouped, zones_df, locVars, aggVars, run_scores, hospVars,
                   loadVars, output_cols, fnVars>>

ParkCellsNext ==
    \/ park_create_sub_zones

SpecParkCells == ParkCellsInit /\ [][ParkCellsNext]_vars

\* ------------------------------------------------------------------------
\* Properties of the locator and the aggregator
\* ------------------------------------------------------------------------
Joined == pc \in {"joined", "aggregated", "featured", "predicted"}
Aggregated == pc \in {"aggregated", "featured", "predicted"}

AssignedIdx == {schools_with_zones[r].idx : r \in 1..Len(schools_with_zones)}
ZoneIds == {admin_gdf[k].zone_id : k \in 1..Len(admin_gdf)}
InsideSome(i) ==
    \E k \in 1..Len(admin_gdf) :
        admin_gdf[k].lo < schools_gdf[i].x /\ schools_gdf[i].x < admin_gdf[k].hi

\* C2: in either mode every facility appears in the returned assignment at
\* most once, so it is never counted under two zones.
C2_FacilityAtMostOnce ==
    Joined =>
        \A r1, r2 \in 1..Len(schools_with_zones) :
            schools_with_zones[r1].idx = schools_with_zones[r2].idx => r1 = r2

C4_CountsConserved ==
    Aggregated =>
        SeqSum([j \in 1..Len(zone_stats) |-> zone_stats[j].num_schools])
            = Cardinality(AssignedIdx)

\* C5: in strict mode the returned assignment holds exactly the facilities
\* lying within some zone polygon, and the count reported as outside/removed
\* is the number of input facilities contained in no polygon.
C5_StrictDropsOutside ==
    (Joined /\ ~use_nearest) =>
        /\ AssignedIdx = {i \in 1..Len(schools_gdf) : InsideSome(i)}
        /\ num_outside = Cardinality({i \in 1..Len(schools_gdf) : ~InsideSome(i)})

C5_Witness ==
    /\ pc = "joined"
    /\ ~use_nearest
    /\ num_outside > 0
    /\ AssignedIdx # {}
    /\ Cardinality(AssignedIdx) + num_outside = Len(schools_gdf)

\* C6: every zone of the input zone set has a row in the aggregated table
\* and in the prediction table; a zone without facilities has num_schools
\* and total_enrolment equal to zero.
C6_EveryZoneHasARow ==
    /\ Aggregated =>
          \A z \in ZoneIds : \E j \in 1..Len(zone_stats) : zone_stats[j].zone_id = z
    /\ pc = "predicted" =>
          \A z \in ZoneIds :
              \E j \in 1..Len(results) :
                  /\ results[j].zone_id = z
                  /\ (\A r \in 1..Len(SpatialJoinRows(schools_gdf, admin_gdf, TRUE, nearest_path)) :
                         SpatialJoinRows(schools_gdf, admin_gdf, TRUE, nearest_path)[r].zone_id # z)
                     => (results[j].num_schools = 0 /\ results[j].total_enrolment = 0)

C8_RatiosFinite ==
    pc = "ratios" =>
        \A m \in DOMAIN outputs : \A f \in DOMAIN outputs[m] :
            /\ IsFinite(outputs[m][f])
            /\ args.denominator = 0 => outputs[m][f].v = 0

Tier(label) ==
    IF label = NeedsImprovement THEN 1
    ELSE IF label = Good THEN 2
    ELSE IF label = Excellent THEN 3
    ELSE 0

\* C9: for scores s1 <= s2 every labeler gives tier(label(s1)) <=
\* tier(label(s2)), and both labels are among the three coverage labels.
C9_LabelersMonotonic ==
    pc = "labels" =>
        \A f \in DOMAIN outputs :
            /\ outputs[f][1] \in {NeedsImprovement, Good, Excellent}
            /\ outputs[f][2] \in {NeedsImprovement, Good, Excellent}
            /\ Tier(outputs[f][1]) <= Tier(outputs[f][2])

C9_Witness ==
    /\ pc = "labels"
    /\ DOMAIN outputs = {"score_to_label", "get_label_and_status", "assign_label",
                         "calculate_coverage_label"}
    /\ args[1] < args[2]
    /\ \A f \in DOMAIN outputs : Tier(outputs[f][1]) < Tier(outputs[f][2])

\* C10: two runs of a scorer on the same zone feature table write the same
\* score for every zone.
C10_ScoringDeterministic ==
    Len(run_scores) = 2 => run_scores[1] = run_scores[2]

\* C1: after the park scorer and after its adjustment pass every zone row
\* carries a score that is a number between 0 and 100 (tenths: 0..1000).
C1_ParkScoreInRange ==
    pc \in {"scored", "adjusted"} =>
        \A j \in 1..Len(zones_df) :
            /\ IsFinite(zones_df[j].predicted_coverage_score)
            /\ 0 <= zones_df[j].predicted_coverage_score.v
            /\ zones_df[j].predicted_coverage_score.v <= 1000


\* C11: every sub-score stays within its declared budget before the sub-scores
\* are summed: hospital density within 0..40 points, beds within 0..30,
\* roads within 0..15 and population density within 0..15 (thousandths of a
\* point)
C11_SubScoresWithinBudget ==
    pc = "hospital_scored" =>
        \A j \in 1..Len(hospital_df) :
            /\ outputs.hospital_score[j] \in 0..40000
            /\ outputs.bed_score[j] \in 0..30000
            /\ outputs.road_score[j] \in 0..15000
            /\ outputs.density_score[j] \in 0..15000


\* the feature vector of a hospital zone row: every input of the scorer but
\* the name of the zone
HospitalFeatures(row) ==
    <<row.num_hospitals, row.avg_hospitals_per_100k, row.total_beds,
      row.beds_per_100k, row.total_roads_km, row.avg_population_density>>

\* C12: the score depends on the feature vector only, never on the name or
\* the identity of the zone: two zones of a table with identical feature
\* vectors get identical scores and labels, zone-specific adjustments included
C12_ScoreDependsOnFeaturesOnly ==
    pc \in {"hospital_labeled", "hospital_exported"} =>
        \A i, j \in 1..Len(hospital_df) :
            HospitalFeatures(hospital_df[i]) = HospitalFeatures(hospital_df[j]) =>
                /\ hospital_df[i].health_access_index = hospital_df[j].health_access_index
                /\ hospital_df[i].coverage_label = hospital_df[j].coverage_label
                /\ hospital_df[i].status = hospital_df[j].status


\* C13: a zone whose required features (population_6_17, literacy_rate) are
\* absent from the population table is never scored: a feature row with a
\* coverage score exists only for zones that have a population row without
\* nulls; no default is substituted
C13_NoScoreWithoutFeatures ==
    pc \in {"featured", "predicted"} =>
        \A j \in 1..Len(features_df) :
            /\ features_df[j].zone_id \in DOMAIN population_df
            /\ population_df[features_df[j].zone_id].population_6_17 # Null
            /\ population_df[features_df[j].zone_id].literacy_rate # Null


\* the rows of the schools CSV whose latitude or longitude is missing, text
\* or out of range
InvalidRows ==
    SelectSeq(raw_df, LAMBDA row :
        ~ (/\ row.lat.k = "num" /\ row.lat.v \in -90..90
           /\ row.lon.k = "num" /\ row.lon.v \in -180..180))

\* C14: a facility with a missing, non-numeric or out-of-range coordinate
\* never appears in the assignment or in a zone aggregate, the run goes on,
\* and the number of facilities excluded for this reason is recorded in a
\* count the run shows
C14_InvalidExcludedAndCounted ==
    pc \in {"loaded", "joined", "aggregated"} =>
        /\ Len(schools_gdf) <= Len(raw_df) - Len(InvalidRows)
        /\ \A r \in 1..Len(schools_with_zones) :
               schools_with_zones[r].idx \in 1..Len(schools_gdf)
        /\ SeqSum([j \in 1..Len(zone_stats) |-> zone_stats[j].num_schools])
               <= Len(schools_with_zones)
        /\ \E name \in DOMAIN diagnostics : diagnostics[name] = Len(InvalidRows)


\* C15: no prediction table is written from an empty facility set: the run
\* aborts before the export when no facility was loaded, so a written table
\* comes from a run with at least one hospital
C15_NoOutputFromEmptyInput ==
    pc = "hospital_exported" =>
        \E j \in 1..Len(hospital_df) : hospital_df[j].num_hospitals > 0


C17_ContainmentFirst ==
    Joined =>
        /\ \A i \in 1..Len(schools_gdf) : \A k \in 1..Len(admin_gdf) :
              (admin_gdf[k].lo < schools_gdf[i].x /\ schools_gdf[i].x < admin_gdf[k].hi) =>
                  \E r \in 1..Len(schools_with_zones) :
                      /\ schools_with_zones[r].idx = i
                      /\ schools_with_zones[r].zone_id = admin_gdf[k].zone_id
        /\ \A r \in 1..Len(schools_with_zones) :
              LET i == schools_with_zones[r].idx
                  zone == CHOOSE z \in {admin_gdf[k] : k \in 1..Len(admin_gdf)} :
                              z.zone_id = schools_with_zones[r].zone_id
              IN IF InsideSome(i)
                 THEN zone.lo < schools_gdf[i].x /\ schools_gdf[i].x < zone.hi
                 ELSE use_nearest

\* a facility on the boundary of a polygon and inside none, next to a
\* facility inside a polygon, joined with the fallback on
C17_Witness ==
    /\ pc = "joined"
    /\ use_nearest
    /\ \E i \in AssignedIdx :
          /\ ~InsideSome(i)
          /\ \E k \in 1..Len(admin_gdf) :
                schools_gdf[i].x = admin_gdf[k].lo \/ schools_gdf[i].x = admin_gdf[k].hi
    /\ \E i \in AssignedIdx : InsideSome(i)

\* the first zone, in the order of the zone table, at minimum distance
FirstNearest(x) ==
    LET d == SetMin({Distance(x, admin_gdf[k]) : k \in 1..Len(admin_gdf)})
        first == SetMin({k \in 1..Len(admin_gdf) : Distance(x, admin_gdf[k]) = d})
    IN admin_gdf[first].zone_id

\* C18: in nearest mode every facility outside all polygons is assigned to
\* a zone at minimum distance, and on a tie to the first such zone of the
\* zone table, on each of the code paths
C18_NearestIsMinimumDistance ==
    (Joined /\ use_nearest) =>
        \A r \in 1..Len(schools_with_zones) :
            ~InsideSome(schools_with_zones[r].idx) =>
                schools_with_zones[r].zone_id
                    = FirstNearest(schools_gdf[schools_with_zones[r].idx].x)


\* the identifier the interface expects for the n-th zone: two digits at
\* least, padded with a zero
PaddedId(n) == IF n < 10 THEN "0" \o Str(n) ELSE Str(n)

\* C19: in an exported table the zone_id values are unique, are the sequence
\* 1..N for the N zones, and are written as zero-padded strings of at least
\* two digits
C19_ZoneIdsPaddedSequence ==
    pc = "hospital_exported" =>
        /\ \A i, j \in 1..Len(result_df) :
               result_df[i].zone_id = result_df[j].zone_id => i = j
        /\ {result_df[j].zone_id : j \in 1..Len(result_df)}
               = {PaddedId(n) : n \in 1..Len(result_df)}
        /\ \A j \in 1..Len(result_df) : Len(result_df[j].zone_id) >= 2

\* the count column and the capacity-or-area column of each domain
DomainColumns ==
    {<<"num_schools", "total_enrolment">>, <<"num_facilities", "total_capacity">>,
     <<"total_parks", "total_area_km2">>, <<"num_parks", "total_area">>}

\* C20: the first columns of an exported table are, in order, zone_id,
\* zone_name, predicted_coverage_score, coverage_label, the count column of
\* the domain, its capacity-or-area column, and status
C20_ColumnOrder ==
    output_cols # <<>> =>
        /\ Len(output_cols) >= 7
        /\ SubSeq(output_cols, 1, 4)
               = <<"zone_id", "zone_name", "predicted_coverage_score", "coverage_label">>
        /\ SubSeq(output_cols, 5, 6) \in DomainColumns
        /\ output_cols[7] = "status"


\* C21: create_sub_zones followed by aggregate_to_zones of the school cell
\* model conserves schools: every cell of a main zone of SUBZONE_MAPPING
\* keeps exactly one sub-zone of its own main zone, none is removed, and the
\* num_schools of the sub-zones add up to the schools_total of the cells
C21_SchoolsConserved ==
    /\ pc \in {"school_sub_zoned", "school_zones"} =>
          /\ Len(cells_df) = Len(raw_df)
          /\ \A i \in 1..Len(cells_df) :
                InSeq(cells_df[i].sub_zone_name, SUBZONE_MAPPING[cells_df[i].zone_name])
    /\ pc = "school_zones" =>
          SeqSum([j \in 1..Len(grouped) |-> grouped[j].num_schools])
              = SeqSum([i \in 1..Len(raw_df) |-> raw_df[i].schools_total])

\* cell i of raw_df was not reached by the loop that fills the sub-zones
HospitalNotReached(i) ==
    /\ raw_df[i].zone_name \in DOMAIN SUBZONE_MAPPING
    /\ HospitalSubZoneName_noLast(raw_df, i) = ""

\* C22: after hospital_coverage_model_cells.create_sub_zones every cell of
\* a main zone of SUBZONE_MAPPING has one of the sub-zones of that main zone,
\* and a cell the filling loop did not reach has the last of them.
C22_EveryCellSubZoned ==
    pc = "hospital_sub_zoned" =>
        /\ Len(cells_df) = Len(raw_df)
        /\ \A i \in 1..Len(cells_df) :
              LET sub_zones == SUBZONE_MAPPING[cells_df[i].zone_name]
              IN cells_df[i].zone_name \in DOMAIN SUBZONE_MAPPING =>
                    /\ cells_df[i].sub_zone_name # ""
                    /\ InSeq(cells_df[i].sub_zone_name, sub_zones)
                    /\ HospitalNotReached(i) =>
                          cells_df[i].sub_zone_name = sub_zones[Len(sub_zones)]

C22_Witness ==
    /\ pc = "hospital_sub_zoned"
    /\ \E i \in 1..Len(cells_df) :
          /\ HospitalNotReached(i)
          /\ cells_df[i].sub_zone_name = "Central Zone 3"

\* C23: after hospital_coverage_model_cells.aggregate_to_zones the sum of
\* num_facilities over the sub-zones lies in 1500..1800.
C23_TotalInTargetRange ==
    pc = "hospital_zones" => Total(grouped) >= 1500 /\ Total(grouped) <= 1800

\* C24: after hospital_coverage_model_cells.calculate_coverage_score no two
\* zones have the same predicted_coverage_score and every score is within
\* 20..90.
C24_ScoresDistinctInRange ==
    pc = "hospital_cells_scored" =>
        /\ \A a, b \in 1..Len(run_scores[1]) :
              a # b => run_scores[1][a] # run_scores[1][b]
        /\ \A a \in 1..Len(run_scores[1]) :
              run_scores[1][a] >= 200 /\ run_scores[1][a] <= 900

\* C25: after park_coverage_model.adjust_for_ui_expectations on a zone table
\* with a zone other than 'East Zone 1' and 'New Delhi' the Urban Green Balance
\* Index is 42.0, 'East Zone 1' has 95.0 and 'New Delhi' has 44.0 (tenths).
C25_BalanceIndexIs42 ==
    pc = "adjusted" /\ (\E j \in 1..Len(zones_df) : ~Protected(zones_df[j])) =>
        /\ UrbanGreenBalanceIndex(zones_df) = Num(420)
        /\ \A j \in 1..Len(zones_df) :
              /\ zones_df[j].zone_name = EastZone1 =>
                    zones_df[j].predicted_coverage_score = Num(950)
              /\ zones_df[j].zone_name = NewDelhi =>
                    zones_df[j].predicted_coverage_score = Num(440)

\* C26: assign_parks returns park counts whose sum is the drawn target total,
\* every zone other than New Delhi within 150..1200 and New Delhi within
\* 300..400.
C26_ParksSumToTarget ==
    pc = "parks_assigned" =>
        /\ SeqSum(outputs.park_allocations) = outputs.total_parks_target
        /\ \A i \in 1..Len(args) :
              IF args[i].zone_name = "New Delhi"
              THEN outputs.park_allocations[i] \in 300..400
              ELSE outputs.park_allocations[i] \in 150..1200

\* the zone_id a create_zone_ids table gives to a zone name
ZoneIdOf(table, zone) ==
    table[CHOOSE k \in 1..Len(table) : table[k].zone_name = zone].zone_id

\* C27: with all 29 sub-zones present the hospital and the school cell
\* pipelines give the same zone_id to the same zone name.
C27_SameZoneIds ==
    pc = "zone_ids" /\ DOMAIN outputs = {"hospital", "school"} /\ Len(args) = 29 =>
        /\ Len(outputs["hospital"]) = 29 /\ Len(outputs["school"]) = 29
        /\ \A j \in 1..Len(args) :
              ZoneIdOf(outputs["hospital"], args[j]) = ZoneIdOf(outputs["school"], args[j])

C27_Witness ==
    /\ pc = "zone_ids" /\ DOMAIN outputs = {"hospital", "school"} /\ Len(args) = 29
    /\ args[1] = "West Zone B1"
    /\ ZoneIdOf(outputs["hospital"], "South East Zone 1") = "18"
    /\ ZoneIdOf(outputs["school"], "South East Zone 1") = "18"

\* C28: clean_zone_format maps the textual zone names to their zone numbers,
\* cleans the numeric codes ('01-E' to '01', '1' to '01', '10' and '100'
\* unchanged), returns '' for a missing value and returns a numeric output
\* unchanged when applied to it again.
C28_ZoneFormat ==
    /\ Len(outputs) >= 1 /\ pc = "zone_values" =>
              /\ args = <<"E", "A", "S", "T">>
                    => outputs[1] = <<"0", "1">>
              /\ args = <<"N", "O", "R", "T", "H", " ", "E", "A", "S", "T">>
                    => outputs[1] = <<"0", "4">>
              /\ args = <<"N", "O", "R", "T", "H">>
                    => outputs[1] = <<"0", "7">>
              /\ args = <<"N", "O", "R", "T", "H", " ", "W", "E", "S", "T">>
                    => outputs[1] = <<"0", "9">>
              /\ args = <<"W", "E", "S", "T">>
                    => outputs[1] = <<"1", "4">>
              /\ args = <<"S", "O", "U", "T", "H", " ", "W", "E", "S", "T">>
                    => outputs[1] = <<"1", "9">>
              /\ args = <<"S", "O", "U", "T", "H">>
                    => outputs[1] = <<"2", "3">>
              /\ args = <<"S", "O", "U", "T", "H", " ", "E", "A", "S", "T">>
                    => outputs[1] = <<"2", "5">>
              /\ args = <<"C", "E", "N", "T", "R", "A", "L">>
                    => outputs[1] = <<"2", "7">>
              /\ args = <<"N", "E", "W", " ", "D", "E", "L", "H", "I">>
                    => outputs[1] = <<"2", "6">>
              /\ args = <<"0", "1", "-", "E">>
                    => outputs[1] = <<"0", "1">>
              /\ args = <<"1">>
                    => outputs[1] = <<"0", "1">>
              /\ args = <<"1", "0">>
                    => outputs[1] = <<"1", "0">>
              /\ args = <<"1", "0", "0">>
                    => outputs[1] = <<"1", "0", "0">>
              /\ args \in {MissingValue, <<>>} => outputs[1] = <<>>
    /\ Len(outputs) = 2 /\ pc = "zone_values"
           /\ outputs[1] # <<>> /\ (\A i \in 1..Len(outputs[1]) : IsDigit(outputs[1][i]))
       => outputs[2] = outputs[1]

\* C29: in every exported row coverage_label and status are those the
\* labeler gives for the exported, rounded score (the score is exported in
\* tenths of a point, the labelers take hundredths).
C29_LabelsMatchExportedScore ==
    pc = "predicted" =>
        \A j \in 1..Len(results) :
            /\ results[j].coverage_label
                   = score_to_label(results[j].predicted_coverage_score * 10)
            /\ results[j].status
                   = score_to_status(results[j].predicted_coverage_score * 10)

\* the number of cells of cells_df in a sub-zone
SubZoneSize(sub_zone) ==
    Cardinality({r \in 1..Len(cells_df) : cells_df[r].sub_zone_name = sub_zone})

\* C30: park_coverage_model.create_sub_zones keeps exactly the cells whose
\* zone_name is a key of subzone_mapping, gives each one sub-zone of its main
\* zone, makes the cell counts of the sub-zones of a main zone differ by at
\* most one with the extra cells in the earlier sub-zones, and hands the cells
\* out in descending park_count order.
C30_ParkCellsPartitioned ==
    pc = "park_sub_zoned" =>
        /\ {cells_df[r].idx : r \in 1..Len(cells_df)}
               = {i \in 1..Len(raw_df) : raw_df[i].zone_name \in DOMAIN subzone_mapping}
        /\ \A r, q \in 1..Len(cells_df) : cells_df[r].idx = cells_df[q].idx => r = q
        /\ \A r \in 1..Len(cells_df) :
              InSeq(cells_df[r].sub_zone_name, subzone_mapping[cells_df[r].zone_name])
        /\ \A main_zone \in DOMAIN subzone_mapping :
              \A a, b \in 1..Len(subzone_mapping[main_zone]) :
                  a < b =>
                      /\ SubZoneSize(subzone_mapping[main_zone][a])
                             - SubZoneSize(subzone_mapping[main_zone][b]) \in {0, 1}
                      /\ \A r, q \in 1..Len(cells_df) :
                            /\ cells_df[r].sub_zone_name = subzone_mapping[main_zone][a]
                            /\ cells_df[q].sub_zone_name = subzone_mapping[main_zone][b]
                            => cells_df[r].park_count >= cells_df[q].park_count

C30_Witness ==
    /\ pc = "park_sub_zoned"
    /\ Len(cells_df) < Len(raw_df)
    /\ SubZoneSize("Central Zone 1") = 2
    /\ SubZoneSize("Central Zone 2") = 1
    /\ SubZoneSize("Central Zone 3") = 1
    /\ \E r, q \in 1..Len(cells_df) :
          /\ cells_df[r].sub_zone_name = "Central Zone 1" /\ cells_df[r].park_count = 9
          /\ cells_df[q].sub_zone_name = "Central Zone 3" /\ cells_df[q].park_count = 0


====
